---------------------------- MODULE Spec2Model ----------------------------
(***************************************************************************)
(* A model of the client-side script of the VR gear catalog page           *)
(* (src/script.js): the localStorage-backed score, counters, achievements, *)
(* favorites and compare list, the catalog filter and sort, the            *)
(* recommendation quiz and the memory game.  One action per handler; the   *)
(* helper functions of the script are operators over a record "w" that     *)
(* holds the localStorage keys and the page elements, so that a handler is *)
(* the composition of the calls it makes, in the order it makes them.  Not *)
(* modelled: the theme and font-size preferences, the tilt, chart and      *)
(* confetti effects.                                                       *)
(***************************************************************************)
EXTENDS Integers, Sequences, FiniteSets, TLC

VARIABLES
    userPoints,            \* localStorage 'userPoints'
    userStats,             \* localStorage 'userStats'
    achievementsUnlocked,  \* localStorage 'achievementsUnlocked'
    trendingCounts,        \* localStorage 'trendingCounts'
    favorites,             \* localStorage 'favorites'
    compareList,           \* localStorage 'compareList'
    accentColor,           \* localStorage 'accentColor'
    scoreValue,            \* text of #score-value
    badge,                 \* text of #achievement-display
    trendingShown,         \* the cards of #trending-list
    favIcons,              \* the cards whose .favorite-icon is starred
    favPanel,              \* the cards cloned into #favorites-list
    cmpIcons,              \* the cards whose .compare-icon is selected
    cmpBar,                \* #compare-bar: shown or not, and the count it states
    modalCard,             \* the card cloned into #quick-view-content
    searchValue,           \* value of #search-input
    selectedCategory,      \* value of #category-filter
    sortMode,              \* value of #sort-filter
    gridOrder,             \* children of #accessories-grid, in DOM order
    visible,               \* the cards whose style.display is not 'none'
    quizIndex,             \* the question shown in #quiz-content
    quizAnswers,           \* the responses array of the running quiz
    quizShown,             \* the cards rendered by displayRecommendations
    statCalls,             \* history: incrementStat(m) calls made so far
    compareClock,          \* history: number of insertions into the compare list
    insertedAt,            \* history: when each compare member was inserted
    lastEvicted,           \* history: the member the last compare toggle evicted
    memoryBoard,           \* the icons of the cards of #memory-game-board, in order
    memoryFlipped,         \* the cards of the board that carry the class 'flip'
    memoryShown,           \* the cards of the board whose icon is visible
    firstMemoryCard,       \* the card awaiting its pair, 0 for null
    memoryLock,            \* true while a flip-back is awaited
    memoryPairsMatched,    \* pairs matched in the running game
    memoryTimers,          \* the flip-back callbacks scheduled, oldest first
    restartShown,          \* #restart-memory-game is displayed
    memoryOpen,            \* #memory-game-modal is displayed
    memoryGames,           \* history: startMemoryGame calls made so far
    memoryMatched,         \* history: the cards matched in the running game
    missing,               \* the optional elements that the markup lacks
    listening,             \* the handlers that the page load has registered
    loadError,             \* the page load ended on an uncaught TypeError
    tabs,                  \* per tab on the storage: what it has read and not yet written
    tabWrites,             \* history: the writes that the tabs have completed
    favSection,            \* style.display of #favorites-section
    compareContent         \* the cards cloned into #compare-content

storageVars == <<userPoints, userStats, achievementsUnlocked, trendingCounts,
                 favorites, compareList, accentColor>>
panelVars   == <<scoreValue, badge, trendingShown, favIcons, favPanel, cmpIcons,
                 cmpBar, modalCard, favSection, compareContent>>
catalogVars == <<searchValue, selectedCategory, sortMode, gridOrder, visible>>
quizVars    == <<quizIndex, quizAnswers, quizShown>>
historyVars == <<statCalls, compareClock, insertedAt, lastEvicted>>
memoryVars  == <<memoryBoard, memoryFlipped, memoryShown, firstMemoryCard, memoryLock,
                 memoryPairsMatched, memoryTimers, restartShown, memoryOpen,
                 memoryGames, memoryMatched>>
markupVars  == <<missing, listening, loadError>>
tabVars     == <<tabs, tabWrites>>
vars == <<storageVars, panelVars, catalogVars, quizVars, historyVars, memoryVars,
          markupVars, tabVars>>

\* the page as the helper functions of the script see it
World ==
    [userPoints |-> userPoints, userStats |-> userStats,
     achievementsUnlocked |-> achievementsUnlocked,
     trendingCounts |-> trendingCounts, favorites |-> favorites,
     compareList |-> compareList, accentColor |-> accentColor,
     scoreValue |-> scoreValue, badge |-> badge,
     trendingShown |-> trendingShown, favIcons |-> favIcons,
     favPanel |-> favPanel, cmpIcons |-> cmpIcons, cmpBar |-> cmpBar,
     modalCard |-> modalCard, searchValue |-> searchValue,
     selectedCategory |-> selectedCategory, sortMode |-> sortMode,
     gridOrder |-> gridOrder, visible |-> visible, quizIndex |-> quizIndex,
     quizAnswers |-> quizAnswers, quizShown |-> quizShown,
     statCalls |-> statCalls, compareClock |-> compareClock,
     insertedAt |-> insertedAt, lastEvicted |-> lastEvicted,
     memoryBoard |-> memoryBoard, memoryFlipped |-> memoryFlipped,
     memoryShown |-> memoryShown, firstMemoryCard |-> firstMemoryCard,
     memoryLock |-> memoryLock, memoryPairsMatched |-> memoryPairsMatched,
     memoryTimers |-> memoryTimers, restartShown |-> restartShown,
     memoryOpen |-> memoryOpen, memoryGames |-> memoryGames,
     memoryMatched |-> memoryMatched,
     missing |-> missing, listening |-> listening, loadError |-> loadError,
     tabs |-> tabs, tabWrites |-> tabWrites,
     favSection |-> favSection, compareContent |-> compareContent]

\* the page after a handler has run
Commit(w) ==
    /\ userPoints' = w.userPoints
    /\ userStats' = w.userStats
    /\ achievementsUnlocked' = w.achievementsUnlocked
    /\ trendingCounts' = w.trendingCounts
    /\ favorites' = w.favorites
    /\ compareList' = w.compareList
    /\ accentColor' = w.accentColor
    /\ scoreValue' = w.scoreValue
    /\ badge' = w.badge
    /\ trendingShown' = w.trendingShown
    /\ favIcons' = w.favIcons
    /\ favPanel' = w.favPanel
    /\ cmpIcons' = w.cmpIcons
    /\ cmpBar' = w.cmpBar
    /\ modalCard' = w.modalCard
    /\ searchValue' = w.searchValue
    /\ selectedCategory' = w.selectedCategory
    /\ sortMode' = w.sortMode
    /\ gridOrder' = w.gridOrder
    /\ visible' = w.visible
    /\ quizIndex' = w.quizIndex
    /\ quizAnswers' = w.quizAnswers
    /\ quizShown' = w.quizShown
    /\ statCalls' = w.statCalls
    /\ compareClock' = w.compareClock
    /\ insertedAt' = w.insertedAt
    /\ lastEvicted' = w.lastEvicted
    /\ memoryBoard' = w.memoryBoard
    /\ memoryFlipped' = w.memoryFlipped
    /\ memoryShown' = w.memoryShown
    /\ firstMemoryCard' = w.firstMemoryCard
    /\ memoryLock' = w.memoryLock
    /\ memoryPairsMatched' = w.memoryPairsMatched
    /\ memoryTimers' = w.memoryTimers
    /\ restartShown' = w.restartShown
    /\ memoryOpen' = w.memoryOpen
    /\ memoryGames' = w.memoryGames
    /\ memoryMatched' = w.memoryMatched
    /\ missing' = w.missing
    /\ listening' = w.listening
    /\ loadError' = w.loadError
    /\ tabs' = w.tabs
    /\ tabWrites' = w.tabWrites
    /\ favSection' = w.favSection
    /\ compareContent' = w.compareContent

-----------------------------------------------------------------------------
(* Bounds of the model *)

\* counter-raising handlers are followed until this many calls were recorded
MaxEvents == 5
\* the same, in the specification of the catalog
MaxCatalogEvents == 3
\* insertions into the compare list that are followed
MaxCompareAdds == 6

\* startMemoryGame calls that are followed
MaxGames == 2
\* the operations that the two tabs run between them
MaxTabWrites == 4
\* the events followed in a run that raises the counters of one handler only
MaxSameEvents == 11

-----------------------------------------------------------------------------
(* localStorage values.  A key is absent, holds text that does not parse,  *)
(* or holds a value.                                                       *)

NoItem == [kind |-> "absent"]
BadItem == [kind |-> "malformed"]
Item(v) == [kind |-> "value", v |-> v]

Metrics == {"shopClicks", "favoritesAdded", "quickViews", "quizCompleted",
            "voiceSearches", "colorsChanged", "categoryChanges", "sortChanges",
            "surprises", "memoryGamesCompleted", "memoryMatches"}

achievementDefs == <<
    [key |-> "shopper",          metric |-> "shopClicks",           threshold |-> 10],
    [key |-> "collector",        metric |-> "favoritesAdded",       threshold |-> 5],
    [key |-> "explorer",         metric |-> "quickViews",           threshold |-> 10],
    [key |-> "quizMaster",       metric |-> "quizCompleted",        threshold |-> 1],
    [key |-> "voiceSearcher",    metric |-> "voiceSearches",        threshold |-> 1],
    [key |-> "stylist",          metric |-> "colorsChanged",        threshold |-> 1],
    [key |-> "categoryExplorer", metric |-> "categoryChanges",      threshold |-> 5],
    [key |-> "sortMaster",       metric |-> "sortChanges",          threshold |-> 1],
    [key |-> "randomExplorer",   metric |-> "surprises",            threshold |-> 1],
    [key |-> "memoryMaster",     metric |-> "memoryGamesCompleted", threshold |-> 1] >>

AchievementKeys == {achievementDefs[i].key : i \in DOMAIN achievementDefs}

\* an object literal {}: every property is undefined, read as 0 / false
EmptyStats == [m \in Metrics |-> 0]
EmptyUnlocked == [k \in AchievementKeys |-> FALSE]

-----------------------------------------------------------------------------
(* Score ledger *)

MasterPoints == 100
ProPoints == 50
EnthusiastPoints == 20
AchievementBonus == 5

\* parseInt(localStorage.getItem('userPoints'), 10), NaN read as 0
\* document.getElementById(element) is not null
Has(w, element) == element \notin w.missing

getPoints(w) == IF w.userPoints.kind = "value" THEN w.userPoints.v ELSE 0

savePoints(w, value) == [w EXCEPT !.userPoints = Item(value)]

\* a variant whose tiers begin one point above their thresholds
BadgeForStrict(pts) ==
    IF pts > MasterPoints THEN "VR Master"
    ELSE IF pts > ProPoints THEN "VR Pro"
    ELSE IF pts > EnthusiastPoints THEN "Enthusiast"
    ELSE ""

BadgeFor(pts) ==
    IF pts >= MasterPoints THEN "VR Master"
    ELSE IF pts >= ProPoints THEN "VR Pro"
    ELSE IF pts >= EnthusiastPoints THEN "Enthusiast"
    ELSE ""

updateScoreboard(w) ==
    LET pts == getPoints(w)
    IN  [w EXCEPT !.scoreValue = IF Has(w, "score-value") THEN pts ELSE @,
                  !.badge = BadgeFor(pts)]

\* a variant that stores the amount in place of the sum
addPointsOverwrite(w, amount) ==
    updateScoreboard(savePoints(w, amount))

addPoints(w, amount) ==
    LET newPts == getPoints(w) + amount
    IN  updateScoreboard(savePoints(w, newPts))

-----------------------------------------------------------------------------
(* Counters and achievements *)

\* JSON.parse(getItem) || {} inside try/catch
getStats(w) == IF w.userStats.kind = "value" THEN w.userStats.v ELSE EmptyStats

saveStats(w, stats) == [w EXCEPT !.userStats = Item(stats)]

\* statCalls is history: it counts the calls, and the script never reads it
\* a variant that writes the raised counter into a fresh object
incrementStatFresh(w, metric) ==
    LET stats == getStats(w)
    IN  [saveStats(w, [EmptyStats EXCEPT ![metric] = stats[metric] + 1])
            EXCEPT !.statCalls[metric] = @ + 1]

incrementStat(w, metric) ==
    LET stats == getStats(w)
    IN  [saveStats(w, [stats EXCEPT ![metric] = @ + 1])
            EXCEPT !.statCalls[metric] = @ + 1]

getUnlockedAchievements(w) ==
    IF w.achievementsUnlocked.kind = "value" THEN w.achievementsUnlocked.v
    ELSE EmptyUnlocked

saveUnlockedAchievements(w, data) == [w EXCEPT !.achievementsUnlocked = Item(data)]

\* the definitions the forEach of checkAchievements unlocks
NewlyUnlocked(stats, unlocked) ==
    {i \in DOMAIN achievementDefs :
        /\ ~unlocked[achievementDefs[i].key]
        /\ stats[achievementDefs[i].metric] >= achievementDefs[i].threshold}

\* a variant that persists the newly unlocked keys alone
checkAchievementsOnlyNew(w) ==
    LET stats == getStats(w)
        unlocked == getUnlockedAchievements(w)
        new == NewlyUnlocked(stats, unlocked)
        marked == [k \in AchievementKeys |-> \E i \in new : achievementDefs[i].key = k]
    IN  IF new # {}
        THEN addPoints(saveUnlockedAchievements(w, marked), AchievementBonus)
        ELSE w

\* a variant that grants the bonus once per achievement unlocked
checkAchievementsPerUnlock(w) ==
    LET stats == getStats(w)
        unlocked == getUnlockedAchievements(w)
        new == NewlyUnlocked(stats, unlocked)
        marked == [k \in AchievementKeys |->
                      unlocked[k] \/ \E i \in new : achievementDefs[i].key = k]
    IN  IF new # {}
        THEN addPoints(saveUnlockedAchievements(w, marked),
                       AchievementBonus * Cardinality(new))
        ELSE w

\* a variant that unlocks and grants no bonus
checkAchievementsUnrewarded(w) ==
    LET stats == getStats(w)
        unlocked == getUnlockedAchievements(w)
        new == NewlyUnlocked(stats, unlocked)
        marked == [k \in AchievementKeys |->
                      unlocked[k] \/ \E i \in new : achievementDefs[i].key = k]
    IN  IF new # {}
        THEN saveUnlockedAchievements(w, marked)
        ELSE w

checkAchievements(w) ==
    LET stats == getStats(w)
        unlocked == getUnlockedAchievements(w)
        new == NewlyUnlocked(stats, unlocked)
        marked == [k \in AchievementKeys |->
                      unlocked[k] \/ \E i \in new : achievementDefs[i].key = k]
    IN  IF new # {}
        THEN addPoints(saveUnlockedAchievements(w, marked), AchievementBonus)
        ELSE w

\* the try block that ends most handlers: incrementStat(metric); checkAchievements()
\* a variant that raises the counter and leaves the achievements for later
recordStatUnchecked(w, metric) == incrementStat(w, metric)

recordStat(w, metric) == checkAchievements(incrementStat(w, metric))

-----------------------------------------------------------------------------
(* The sample page: four product cards of #accessories-grid, in document   *)
(* order.  data-name and data-category are given with their characters,    *)
(* since the script compares and searches them as text.                    *)

CardNames == <<"YOGES", "bHaptics", "Casematix", "BOBOVR">>
Names == {CardNames[i] : i \in DOMAIN CardNames}

Chars == [YOGES     |-> <<"Y","O","G","E","S">>,
          bHaptics  |-> <<"b","H","a","p","t","i","c","s">>,
          Casematix |-> <<"C","a","s","e","m","a","t","i","x">>,
          BOBOVR    |-> <<"B","O","B","O","V","R">>,
          Power     |-> <<"P","o","w","e","r">>,
          Haptics   |-> <<"H","a","p","t","i","c","s">>,
          Storage   |-> <<"S","t","o","r","a","g","e">>]

CardCategory == [YOGES |-> "Power", bHaptics |-> "Haptics",
                 Casematix |-> "Storage", BOBOVR |-> "Power"]
Categories == {CardCategory[n] : n \in Names}

\* dataset.index, assigned by initSorting
CardIndex(name) == CHOOSE i \in DOMAIN CardNames : CardNames[i] = name

\* the text of the card's markup: heading, one word of description, button
CardMarkup == [YOGES     |-> Chars["YOGES"] \o <<" ","D","o","c","k"," ","S","h","o","p">>,
               bHaptics  |-> Chars["bHaptics"] \o <<" ","V","e","s","t"," ","S","h","o","p">>,
               Casematix |-> Chars["Casematix"] \o <<" ","C","a","s","e"," ","S","h","o","p">>,
               BOBOVR    |-> Chars["BOBOVR"] \o <<" ","S","t","r","a","p"," ","S","h","o","p">>]

-----------------------------------------------------------------------------
(* Text *)

UpperCase == <<"A","B","C","D","E","F","G","H","I","J","K","L","M",
               "N","O","P","Q","R","S","T","U","V","W","X","Y","Z">>
LowerCase == <<"a","b","c","d","e","f","g","h","i","j","k","l","m",
               "n","o","p","q","r","s","t","u","v","w","x","y","z">>

UpperSet == {UpperCase[i] : i \in DOMAIN UpperCase}
LowerSet == {LowerCase[i] : i \in DOMAIN LowerCase}

\* the characters of the texts of the page: letters, the space, and the
\* icons of the favorite and compare controls
Alphabet == UpperSet \cup LowerSet \cup {" ", "[star]", "[starred]", "[box]", "[checked]"}

IsUpper(ch) == ch \in UpperSet
IsLower(ch) == ch \in LowerSet

\* position of a letter in the alphabet, whatever its case
RankTable ==
    [ch \in UpperSet \cup LowerSet |->
        IF ch \in UpperSet THEN CHOOSE i \in DOMAIN UpperCase : UpperCase[i] = ch
        ELSE CHOOSE i \in DOMAIN LowerCase : LowerCase[i] = ch]

LetterRank(ch) == RankTable[ch]

\* UTF-16 code unit of a letter
CodeUnit(ch) == IF IsUpper(ch) THEN 64 + LetterRank(ch) ELSE 96 + LetterRank(ch)

LowerTable ==
    [ch \in Alphabet |-> IF ch \in UpperSet THEN LowerCase[RankTable[ch]] ELSE ch]

ToLowerChar(ch) == LowerTable[ch]

\* String.prototype.toLowerCase
toLowerCase(s) == [i \in DOMAIN s |-> ToLowerChar(s[i])]

RECURSIVE TrimStart(_)
TrimStart(s) == IF s # <<>> /\ Head(s) = " " THEN TrimStart(Tail(s)) ELSE s

RECURSIVE TrimEnd(_)
TrimEnd(s) ==
    IF s # <<>> /\ s[Len(s)] = " " THEN TrimEnd(SubSeq(s, 1, Len(s) - 1)) ELSE s

\* String.prototype.trim
trim(s) == TrimEnd(TrimStart(s))

\* String.prototype.includes
includes(text, q) ==
    \E i \in 0..(Len(text) - Len(q)) : \A j \in 1..Len(q) : text[i + j] = q[j]

\* first position where two texts differ, 0 when one is a prefix of the other
FirstDiff(a, b) ==
    LET n == IF Len(a) < Len(b) THEN Len(a) ELSE Len(b)
        D == {i \in 1..n : a[i] # b[i]}
    IN  IF D = {} THEN 0 ELSE CHOOSE i \in D : \A j \in D : i <= j

Sign(x) == IF x < 0 THEN -1 ELSE IF x > 0 THEN 1 ELSE 0

\* comparison of code units, position by position (the order of < on strings)
CodeUnitCompare(a, b) ==
    LET d == FirstDiff(a, b)
    IN  IF d = 0 THEN Sign(Len(a) - Len(b))
        ELSE Sign(CodeUnit(a[d]) - CodeUnit(b[d]))

\* String.prototype.localeCompare for texts of unaccented Latin letters: the
\* letters decide first, whatever their case; texts with the same letters
\* are ordered by case at the first difference, lower case first
localeCompare(a, b) ==
    LET la == toLowerCase(a)
        lb == toLowerCase(b)
        d  == FirstDiff(la, lb)
        c  == FirstDiff(a, b)
    IN  IF d # 0 THEN Sign(LetterRank(la[d]) - LetterRank(lb[d]))
        ELSE IF Len(a) # Len(b) THEN Sign(Len(a) - Len(b))
        ELSE IF c = 0 THEN 0
        ELSE IF IsLower(a[c]) THEN -1 ELSE 1

-----------------------------------------------------------------------------
(* Trending counts.  The stored object is kept as its entries, in the      *)
(* order the properties were created, which Object.entries returns.        *)

getTrendingCounts(w) ==
    IF w.trendingCounts.kind = "value" THEN w.trendingCounts.v ELSE <<>>

saveTrendingCounts(w, counts) == [w EXCEPT !.trendingCounts = Item(counts)]

\* counts[name] || 0
CountOf(counts, name) ==
    IF \E i \in DOMAIN counts : counts[i][1] = name
    THEN counts[CHOOSE i \in DOMAIN counts : counts[i][1] = name][2]
    ELSE 0

\* counts[name] = (counts[name] || 0) + 1
BumpCount(counts, name) ==
    IF \E i \in DOMAIN counts : counts[i][1] = name
    THEN [i \in DOMAIN counts |->
             IF counts[i][1] = name THEN <<name, counts[i][2] + 1>> ELSE counts[i]]
    ELSE Append(counts, <<name, 1>>)

\* Array.prototype.sort with (a, b) => b[1] - a[1]: stable, descending count
RECURSIVE InsertByCount(_, _)
InsertByCount(sorted, e) ==
    IF sorted = <<>> THEN <<e>>
    ELSE IF Head(sorted)[2] >= e[2] THEN <<Head(sorted)>> \o InsertByCount(Tail(sorted), e)
    ELSE <<e>> \o sorted

RECURSIVE SortByCount(_)
SortByCount(entries) ==
    IF entries = <<>> THEN <<>>
    ELSE InsertByCount(SortByCount(SubSeq(entries, 1, Len(entries) - 1)),
                       entries[Len(entries)])

TopTrending == 3

\* updateTrendingList reads no element before it uses it: it ends on a
\* TypeError at its first use of one that is null
TrendingThrows(w) == ~Has(w, "trending-list") \/ ~Has(w, "trending-section")

\* the page as updateTrendingList leaves it, by its end or by the TypeError
\* a variant that shows the entries in the order of the stored object
updateTrendingListUnsorted(w) ==
    LET entries == getTrendingCounts(w)
        n == IF Len(entries) < TopTrending THEN Len(entries) ELSE TopTrending
    IN  IF ~Has(w, "trending-list") THEN w
        ELSE IF ~Has(w, "trending-section") THEN [w EXCEPT !.trendingShown = <<>>]
        ELSE [w EXCEPT !.trendingShown = SubSeq(entries, 1, n)]

updateTrendingList(w) ==
    LET entries == SortByCount(getTrendingCounts(w))
        n == IF Len(entries) < TopTrending THEN Len(entries) ELSE TopTrending
    IN  IF ~Has(w, "trending-list") THEN w
        ELSE IF ~Has(w, "trending-section") THEN [w EXCEPT !.trendingShown = <<>>]
        ELSE [w EXCEPT !.trendingShown = SubSeq(entries, 1, n)]

-----------------------------------------------------------------------------
(* Favorites *)

FavoritePoints == 5

getFavorites(w) == IF w.favorites.kind = "value" THEN w.favorites.v ELSE <<>>

\* a variant that leaves a value it could not read in place
saveFavoritesIfReadable(w, list) ==
    IF w.favorites.kind = "malformed" THEN w ELSE [w EXCEPT !.favorites = Item(list)]

saveFavorites(w, list) == [w EXCEPT !.favorites = Item(list)]

\* Array.prototype.indexOf, 1-based; 0 when absent
indexOf(list, name) ==
    IF \E i \in DOMAIN list : list[i] = name
    THEN CHOOSE i \in DOMAIN list : list[i] = name /\ \A j \in 1..(i - 1) : list[j] # name
    ELSE 0

\* list.splice(index, 1)
RemoveAt(list, i) == SubSeq(list, 1, i - 1) \o SubSeq(list, i + 1, Len(list))

Range(list) == {list[i] : i \in DOMAIN list}

updateCardFavoriteIcons(w) ==
    LET favs == getFavorites(w)
    IN  [w EXCEPT !.favIcons = {n \in Names : n \in Range(favs)}]

\* the clones appended to #favorites-list; the section is hidden when there are none
FavoritesThrows(w) == ~Has(w, "favorites-list") \/ ~Has(w, "favorites-section")

\* the page as updateFavoritesList leaves it, by its end or by the TypeError
\* a variant that leaves the section as it is when no favorite is left
updateFavoritesListKeepingSection(w) ==
    LET favs == getFavorites(w)
    IN  IF ~Has(w, "favorites-list") THEN w
        ELSE IF ~Has(w, "favorites-section") THEN [w EXCEPT !.favPanel = <<>>]
        ELSE IF Len(favs) = 0 THEN [w EXCEPT !.favPanel = <<>>]
        ELSE [w EXCEPT !.favSection = "block",
                       !.favPanel = SelectSeq(favs, LAMBDA n : n \in Names)]

updateFavoritesList(w) ==
    LET favs == getFavorites(w)
    IN  IF ~Has(w, "favorites-list") THEN w
        ELSE IF ~Has(w, "favorites-section") THEN [w EXCEPT !.favPanel = <<>>]
        ELSE IF Len(favs) = 0 THEN [w EXCEPT !.favSection = "none", !.favPanel = <<>>]
        ELSE [w EXCEPT !.favSection = "block",
                       !.favPanel = SelectSeq(favs, LAMBDA n : n \in Names)]

\* a variant that rewards the removal as well as the addition
toggleFavoriteAlwaysReward(w, name) ==
    LET favs == getFavorites(w)
        index == indexOf(favs, name)
        w1 == recordStat(addPoints(w, FavoritePoints), "favoritesAdded")
        list == IF index > 0 THEN RemoveAt(favs, index) ELSE Append(favs, name)
    IN  updateFavoritesList(updateCardFavoriteIcons(saveFavorites(w1, list)))

toggleFavorite(w, name) ==
    LET favs == getFavorites(w)
        index == indexOf(favs, name)
        w1 == IF index > 0 THEN w
              ELSE recordStat(addPoints(w, FavoritePoints), "favoritesAdded")
        list == IF index > 0 THEN RemoveAt(favs, index) ELSE Append(favs, name)
    IN  updateFavoritesList(updateCardFavoriteIcons(saveFavorites(w1, list)))

-----------------------------------------------------------------------------
(* Comparison list *)

MaxCompare == 3

getCompareList(w) == IF w.compareList.kind = "value" THEN w.compareList.v ELSE <<>>

saveCompareList(w, list) == [w EXCEPT !.compareList = Item(list)]

updateCompareIcons(w) ==
    LET list == getCompareList(w)
    IN  [w EXCEPT !.cmpIcons = {n \in Names : n \in Range(list)}]

\* the count is rewritten only while the bar is shown
updateCompareBar(w) ==
    LET list == getCompareList(w)
    IN  IF ~Has(w, "compare-bar") THEN w
        ELSE IF Len(list) = 0 THEN [w EXCEPT !.cmpBar.shown = FALSE]
        ELSE [w EXCEPT !.cmpBar = [shown |-> TRUE, count |-> Len(list)]]

\* openCompareModal: a clone of the card of each name of the list that is
\* the name of a card of the grid
openCompareModal(w) ==
    [w EXCEPT !.compareContent = SelectSeq(getCompareList(w), LAMBDA n : n \in Names)]

\* compareClock, insertedAt and lastEvicted are history: the script never
\* reads them
\* a variant that drops the last member of a full list, not the first
toggleCompareDropLast(w, name) ==
    LET list == getCompareList(w)
        index == indexOf(list, name)
        full == Len(list) >= MaxCompare
        kept == IF full THEN SubSeq(list, 1, Len(list) - 1) ELSE list
        new == IF index > 0 THEN RemoveAt(list, index) ELSE Append(kept, name)
        w1 == IF index > 0 THEN [w EXCEPT !.lastEvicted = "none"]
              ELSE [w EXCEPT !.compareClock = @ + 1,
                             !.insertedAt[name] = w.compareClock + 1,
                             !.lastEvicted = IF full THEN list[Len(list)] ELSE "none"]
    IN  updateCompareBar(updateCompareIcons(saveCompareList(w1, new)))

\* a variant that appends without looking the name up
toggleCompareAlwaysPush(w, name) ==
    LET list == getCompareList(w)
        full == Len(list) >= MaxCompare
        kept == IF full THEN Tail(list) ELSE list
        w1 == [w EXCEPT !.compareClock = @ + 1,
                        !.insertedAt[name] = w.compareClock + 1,
                        !.lastEvicted = IF full THEN Head(list) ELSE "none"]
    IN  updateCompareBar(updateCompareIcons(saveCompareList(w1, Append(kept, name))))

\* a variant that ends on an evaluation of the achievements
toggleCompareChecking(w, name) ==
    LET list == getCompareList(w)
        index == indexOf(list, name)
        full == Len(list) >= MaxCompare
        kept == IF full THEN Tail(list) ELSE list
        new == IF index > 0 THEN RemoveAt(list, index) ELSE Append(kept, name)
        w1 == IF index > 0 THEN [w EXCEPT !.lastEvicted = "none"]
              ELSE [w EXCEPT !.compareClock = @ + 1,
                             !.insertedAt[name] = w.compareClock + 1,
                             !.lastEvicted = IF full THEN Head(list) ELSE "none"]
    IN  checkAchievements(
            updateCompareBar(updateCompareIcons(saveCompareList(w1, new))))

toggleCompare(w, name) ==
    LET list == getCompareList(w)
        index == indexOf(list, name)
        full == Len(list) >= MaxCompare
        kept == IF full THEN Tail(list) ELSE list
        new == IF index > 0 THEN RemoveAt(list, index) ELSE Append(kept, name)
        w1 == IF index > 0 THEN [w EXCEPT !.lastEvicted = "none"]
              ELSE [w EXCEPT !.compareClock = @ + 1,
                             !.insertedAt[name] = w.compareClock + 1,
                             !.lastEvicted = IF full THEN Head(list) ELSE "none"]
    IN  updateCompareBar(updateCompareIcons(saveCompareList(w1, new)))

-----------------------------------------------------------------------------
(* Catalog: filter and sort *)

QuickViewLabel == <<"Q","u","i","c","k"," ","V","i","e","w">>

\* card.textContent: the markup, then the elements the script appends to the
\* card (favorite icon, Quick View button, compare icon)
textContent(w, name) ==
    CardMarkup[name]
        \o (IF "favorite" \in w.listening
            THEN <<IF name \in w.favIcons THEN "[starred]" ELSE "[star]">>
                     \o QuickViewLabel
            ELSE <<>>)
        \o (IF "compare" \in w.listening
            THEN <<IF name \in w.cmpIcons THEN "[checked]" ELSE "[box]">>
            ELSE <<>>)

\* the predicate filterCards applies to one card
CardMatches(w, name, query, category) ==
    LET text == toLowerCase(textContent(w, name))
        matchesCategory == category = "All" \/ CardCategory[name] = category
        matchesQuery == includes(text, query)
    IN  matchesCategory /\ matchesQuery

\* a variant that filters on the text alone, whatever the category
filterCardsTextOnly(w) ==
    LET query == toLowerCase(trim(w.searchValue))
    IN  [w EXCEPT !.visible = {n \in Names : CardMatches(w, n, query, "All")}]

filterCards(w) ==
    LET query == toLowerCase(trim(w.searchValue))
    IN  [w EXCEPT !.visible = {n \in Names : CardMatches(w, n, query, w.selectedCategory)}]

\* the comparator of sortCards
\* a variant whose alphabetical order compares code units
cardCompareCodeUnit(w, mode, a, b) ==
    IF mode = "alphabetical" THEN CodeUnitCompare(Chars[a], Chars[b])
    ELSE IF mode = "popularity"
        THEN CountOf(getTrendingCounts(w), b) - CountOf(getTrendingCounts(w), a)
    ELSE IF mode = "category"
        THEN localeCompare(Chars[CardCategory[a]], Chars[CardCategory[b]])
    ELSE CardIndex(a) - CardIndex(b)

cardCompare(w, mode, a, b) ==
    IF mode = "alphabetical" THEN localeCompare(Chars[a], Chars[b])
    ELSE IF mode = "popularity"
        THEN CountOf(getTrendingCounts(w), b) - CountOf(getTrendingCounts(w), a)
    ELSE IF mode = "category"
        THEN localeCompare(Chars[CardCategory[a]], Chars[CardCategory[b]])
    ELSE CardIndex(a) - CardIndex(b)

\* Array.prototype.sort is stable: an element goes after its equals
RECURSIVE InsertCard(_, _, _, _)
InsertCard(w, mode, sorted, c) ==
    IF sorted = <<>> THEN <<c>>
    ELSE IF cardCompare(w, mode, Head(sorted), c) <= 0
        THEN <<Head(sorted)>> \o InsertCard(w, mode, Tail(sorted), c)
    ELSE <<c>> \o sorted

RECURSIVE SortCardSeq(_, _, _)
SortCardSeq(w, mode, cards) ==
    IF cards = <<>> THEN <<>>
    ELSE InsertCard(w, mode, SortCardSeq(w, mode, SubSeq(cards, 1, Len(cards) - 1)),
                    cards[Len(cards)])

\* a variant that leaves the grid as it is
sortCardsSkipped(w) == w

sortCards(w) == [w EXCEPT !.gridOrder = SortCardSeq(w, w.sortMode, w.gridOrder)]

SortModes == {"default", "alphabetical", "popularity", "category"}

\* The search handler of the earlier version of the script, which filters on
\* the text alone
legacySearchInput(w, value) ==
    LET query == toLowerCase(trim(value))
    IN  [w EXCEPT !.searchValue = value,
                  !.visible = {n \in Names :
                                  includes(toLowerCase(textContent(w, n)), query)}]

-----------------------------------------------------------------------------
(* Quick view *)

openQuickView(w, name) == [w EXCEPT !.modalCard = name]

-----------------------------------------------------------------------------
(* Recommendation quiz *)

QuizPoints == 10
MaxShown == 4

quizQuestions == <<
    [question |-> "use", answers |-> <<"Gaming", "Fitness", "Productivity", "Social">>],
    [question |-> "budget", answers |-> <<"Low", "Medium", "High">>],
    [question |-> "feature", answers |-> <<"Comfort", "Audio", "Haptics", "Battery">>] >>

UseCaseRecs(useCase) ==
    CASE useCase = "Gaming" ->
           <<"VR Gun Stock (AMVR)", "Shadow Shot VR Bow",
             "Weighted Golf Club Attachment (DriVR Elite)">>
      [] useCase = "Fitness" ->
           <<"Ringside Weighted Exercise Gloves", "Skywin VR Mat",
             "Weighted Golf Club Attachment (DriVR Elite)">>
      [] useCase = "Productivity" ->
           <<"Meta Quest Link Cable", "Syntech 16 ft Link Cable", "Casematix Hard Case">>
      [] useCase = "Social" ->
           <<"SteelSeries Arctis Nova 4 Headphones", "PRISMXR Low-Latency Earphones",
             "KIWI Design K4 Duo Audio & Battery Strap">>
      [] OTHER -> <<>>

PriorityRecs(priority) ==
    CASE priority = "Comfort" ->
           <<"KIWI Design K4 Mini Head Strap", "BOBOVR M3 Pro Head Strap">>
      [] priority = "Audio" ->
           <<"SteelSeries Arctis Nova 4 Headphones", "PRISMXR Low-Latency Earphones">>
      [] priority = "Haptics" ->
           <<"Woojer Vest 3 Haptic Vest", "bHaptics TactSuit X16">>
      [] priority = "Battery" ->
           <<"BOBOVR S3 Pro Battery Strap", "YOGES Charging Station",
             "PRISMXR Carina D1 Charging Dock">>
      [] OTHER -> <<>>

BudgetRecs(budget) ==
    CASE budget = "High" -> <<"Roto VR Explorer Chair", "VIVE Ultimate Tracker">>
      [] OTHER -> <<>>

\* a variant that pushes the name whether or not the list holds it
addAlways(recs, name) == Append(recs, name)

\* if (!recs.includes(name)) recs.push(name)
addUnique(recs, name) == IF name \in Range(recs) THEN recs ELSE Append(recs, name)

RECURSIVE addAllUnique(_, _)
addAllUnique(recs, names) ==
    IF names = <<>> THEN recs
    ELSE addAllUnique(addUnique(recs, Head(names)), Tail(names))

\* recs of displayRecommendations; responses are [useCase, budget, priority]
\* a variant that adds the budget items before the priority items
QuizCandidatesBudgetFirst(responses) ==
    LET useCase == responses[1]
        budget == responses[2]
        priority == responses[3]
    IN  addAllUnique(addAllUnique(addAllUnique(<<>>, UseCaseRecs(useCase)),
                                  BudgetRecs(budget)),
                     PriorityRecs(priority))

QuizCandidates(responses) ==
    LET useCase == responses[1]
        budget == responses[2]
        priority == responses[3]
    IN  addAllUnique(addAllUnique(addAllUnique(<<>>, UseCaseRecs(useCase)),
                                  PriorityRecs(priority)),
                     BudgetRecs(budget))

\* a variant that shows every candidate
FirstShownAll(recs) == recs

\* recs.slice(0, 4)
FirstShown(recs) == SubSeq(recs, 1, IF Len(recs) < MaxShown THEN Len(recs) ELSE MaxShown)

QuizAnswerSets ==
    {quizQuestions[1].answers[i] : i \in 1..4} \X {quizQuestions[2].answers[i] : i \in 1..3}
        \X {quizQuestions[3].answers[i] : i \in 1..4}

\* The markup of the page: the product cards under .card-grid.  Every product
\* the quiz can recommend has a card, as has every card of the sample grid.
PageCardNames ==
    Names \cup UNION {Range(QuizCandidates(r)) : r \in QuizAnswerSets}

\* a variant that records the completion and grants no points
displayRecommendationsUnrewarded(w, responses) ==
    LET w1 == recordStat(w, "quizCompleted")
        recs == QuizCandidates(responses)
    IN  [w1 EXCEPT !.quizShown = SelectSeq(FirstShown(recs), LAMBDA n : n \in PageCardNames)]

displayRecommendations(w, responses) ==
    LET w1 == recordStat(addPoints(w, QuizPoints), "quizCompleted")
        recs == QuizCandidates(responses)
    IN  [w1 EXCEPT !.quizShown = SelectSeq(FirstShown(recs), LAMBDA n : n \in PageCardNames)]

showQuizQuestion(w, index, responses) ==
    LET w1 == [w EXCEPT !.quizIndex = index, !.quizAnswers = responses]
    IN  IF index >= Len(quizQuestions) THEN displayRecommendations(w1, responses)
        ELSE [w1 EXCEPT !.quizShown = <<>>]

-----------------------------------------------------------------------------
(* Memory game.  A card of the board is its position, 1 to 16; a card of   *)
(* an earlier board, which a flip-back callback may still hold, is 0: it   *)
(* is detached from the document and nothing of it can be seen or clicked. *)

MatchPoints == 5
PairsToComplete == 8

memoryIcons == <<"gamepad", "gun", "glove", "headphones",
                 "brain", "backpack", "goggles", "yoyo">>

\* icons.concat(icons)
Deck == memoryIcons \o memoryIcons

\* a variant that writes the second card over the first
ShuffleOverwriting(deck, pick) ==
    [i \in 1..Len(deck) |-> deck[pick[IF i = 1 THEN 2 ELSE i]]]

\* .sort(() => Math.random() - 0.5): the array comes back permuted, in the
\* order pick that the random comparator happens to produce
Shuffle(deck, pick) == [i \in 1..Len(deck) |-> deck[pick[i]]]

\* the callbacks scheduled keep their cards, which leave the document
Detach(timers) == [i \in 1..Len(timers) |-> 0]

\* a variant that clears the callbacks scheduled, as clearTimeout would
startMemoryGameCancelling(w, pick) ==
    [w EXCEPT !.firstMemoryCard = 0,
              !.memoryLock = FALSE,
              !.memoryPairsMatched = 0,
              !.memoryBoard = Shuffle(Deck, pick),
              !.memoryFlipped = {},
              !.memoryShown = {},
              !.restartShown = FALSE,
              !.memoryTimers = <<>>,
              !.memoryGames = @ + 1,
              !.memoryMatched = {}]

startMemoryGame(w, pick) ==
    [w EXCEPT !.firstMemoryCard = 0,
              !.memoryLock = FALSE,
              !.memoryPairsMatched = 0,
              !.memoryBoard = Shuffle(Deck, pick),
              !.memoryFlipped = {},
              !.memoryShown = {},
              !.restartShown = FALSE,
              !.memoryTimers = Detach(@),
              !.memoryGames = @ + 1,
              !.memoryMatched = {}]

\* a variant that does not look at the lock
handleMemoryCardClickUnlocked(w, card) ==
    IF card \in w.memoryFlipped THEN w
    ELSE
      LET first == w.firstMemoryCard
          w1 == [w EXCEPT !.memoryShown = @ \cup {card},
                          !.memoryFlipped = @ \cup {card}]
      IN  IF first = 0 THEN [w1 EXCEPT !.firstMemoryCard = card]
          ELSE IF w.memoryBoard[card] = w.memoryBoard[first]
          THEN LET pairs == w.memoryPairsMatched + 1
                   w2 == [w1 EXCEPT !.memoryPairsMatched = pairs,
                                    !.memoryMatched = @ \cup {card, first}]
                   w3 == incrementStat(addPoints(w2, MatchPoints), "memoryMatches")
                   w4 == [w3 EXCEPT !.firstMemoryCard = 0]
               IN  IF pairs = PairsToComplete
                   THEN [checkAchievements(incrementStat(w4, "memoryGamesCompleted"))
                            EXCEPT !.restartShown = TRUE]
                   ELSE w4
          ELSE [w1 EXCEPT !.memoryLock = TRUE,
                          !.memoryTimers = Append(@, card)]

\* a variant that records a completed game at every match
handleMemoryCardClickEveryMatch(w, card) ==
    IF w.memoryLock \/ card \in w.memoryFlipped THEN w
    ELSE
      LET first == w.firstMemoryCard
          w1 == [w EXCEPT !.memoryShown = @ \cup {card},
                          !.memoryFlipped = @ \cup {card}]
      IN  IF first = 0 THEN [w1 EXCEPT !.firstMemoryCard = card]
          ELSE IF w.memoryBoard[card] = w.memoryBoard[first]
          THEN LET pairs == w.memoryPairsMatched + 1
                   w2 == [w1 EXCEPT !.memoryPairsMatched = pairs,
                                    !.memoryMatched = @ \cup {card, first}]
                   w3 == incrementStat(addPoints(w2, MatchPoints), "memoryMatches")
                   w4 == [w3 EXCEPT !.firstMemoryCard = 0]
               IN  [checkAchievements(incrementStat(w4, "memoryGamesCompleted"))
                       EXCEPT !.restartShown = (pairs = PairsToComplete)]
          ELSE [w1 EXCEPT !.memoryLock = TRUE,
                          !.memoryTimers = Append(@, card)]

handleMemoryCardClick(w, card) ==
    IF w.memoryLock \/ card \in w.memoryFlipped THEN w
    ELSE
      LET first == w.firstMemoryCard
          w1 == [w EXCEPT !.memoryShown = @ \cup {card},
                          !.memoryFlipped = @ \cup {card}]
      IN  IF first = 0 THEN [w1 EXCEPT !.firstMemoryCard = card]
          ELSE IF w.memoryBoard[card] = w.memoryBoard[first]
          THEN LET pairs == w.memoryPairsMatched + 1
                   w2 == [w1 EXCEPT !.memoryPairsMatched = pairs,
                                    !.memoryMatched = @ \cup {card, first}]
                   w3 == incrementStat(addPoints(w2, MatchPoints), "memoryMatches")
                   w4 == [w3 EXCEPT !.firstMemoryCard = 0]
               IN  IF pairs = PairsToComplete
                   THEN [checkAchievements(incrementStat(w4, "memoryGamesCompleted"))
                            EXCEPT !.restartShown = TRUE]
                   ELSE w4
          ELSE [w1 EXCEPT !.memoryLock = TRUE,
                          !.memoryTimers = Append(@, card)]

\* a variant that turns every card of the board face-down
flipBackAll(w) ==
    [w EXCEPT !.memoryTimers = Tail(@),
              !.memoryFlipped = {},
              !.memoryShown = {},
              !.firstMemoryCard = 0,
              !.memoryLock = FALSE]

\* the callback of setTimeout(..., 800): card is the card it was scheduled
\* for, firstMemoryCard is read when it runs; on null the second statement
\* throws and the callback ends there
flipBack(w) ==
    LET card == Head(w.memoryTimers)
        first == w.firstMemoryCard
        w1 == [w EXCEPT !.memoryTimers = Tail(@),
                        !.memoryFlipped = @ \ {card}]
    IN  IF first = 0 THEN w1
        ELSE [w1 EXCEPT !.memoryFlipped = @ \ {first},
                        !.memoryShown = @ \ {card, first},
                        !.firstMemoryCard = 0,
                        !.memoryLock = FALSE]

openMemoryGame(w, pick) == startMemoryGame([w EXCEPT !.memoryOpen = TRUE], pick)

closeMemoryGame(w) == [w EXCEPT !.memoryOpen = FALSE]

-----------------------------------------------------------------------------
(* Page load *)

DefaultAccent == "#0077ff"

\* The body of the DOMContentLoaded listener, for the given stored values:
\* the displays are brought in line with the storage, the grid is in
\* document order with every card shown, and no quiz is running.
\* the tabs that show the page on one localStorage
Tabs == {1, 2}

\* a tab that is not between a read and its write
Idle == [op |-> "idle", arg |-> "", read |-> NoItem]

\* the handlers registered by each stretch of the DOMContentLoaded callback
ListenersBeforeTrending == {"voice", "search", "category", "color", "sort", "shop"}
ListenersBeforeFavorites == {"quickView", "surprise", "favorite"}
ListenersAfterFavorites == {"compare", "memory"}

\* the DOMContentLoaded callback on a page whose markup lacks the elements in
\* absent: a TypeError in updateTrendingList or updateFavoritesList ends it
PageLoadWith(stored, absent) ==
    LET w0 == [userPoints |-> stored.userPoints, userStats |-> stored.userStats,
               achievementsUnlocked |-> stored.achievementsUnlocked,
               trendingCounts |-> stored.trendingCounts,
               favorites |-> stored.favorites, compareList |-> stored.compareList,
               accentColor |-> DefaultAccent,
               scoreValue |-> 0, badge |-> "",
               trendingShown |-> <<>>, favIcons |-> {}, favPanel |-> <<>>,
               cmpIcons |-> {}, cmpBar |-> [shown |-> FALSE, count |-> 0],
               modalCard |-> "none", searchValue |-> <<>>,
               selectedCategory |-> "All", sortMode |-> "default",
               gridOrder |-> CardNames, visible |-> Names, quizIndex |-> -1,
               quizAnswers |-> <<>>, quizShown |-> <<>>,
               statCalls |-> EmptyStats, compareClock |-> 0,
               insertedAt |-> [n \in Names |-> 0], lastEvicted |-> "none",
               memoryBoard |-> <<>>, memoryFlipped |-> {}, memoryShown |-> {},
               firstMemoryCard |-> 0, memoryLock |-> FALSE,
               memoryPairsMatched |-> 0, memoryTimers |-> <<>>,
               restartShown |-> FALSE, memoryOpen |-> FALSE,
               memoryGames |-> 0, memoryMatched |-> {},
               missing |-> absent, listening |-> {}, loadError |-> FALSE,
               tabs |-> [t \in Tabs |-> Idle], tabWrites |-> 0,
               favSection |-> "markup", compareContent |-> <<>>]
        w1 == [updateScoreboard(w0) EXCEPT !.listening = ListenersBeforeTrending]
        w2 == [updateTrendingList(w1) EXCEPT
                   !.listening = @ \cup ListenersBeforeFavorites]
        w3 == updateFavoritesList(updateCardFavoriteIcons(w2))
        w4 == updateCompareBar(updateCompareIcons(
                  [w3 EXCEPT !.listening = @ \cup ListenersAfterFavorites]))
    IN  IF TrendingThrows(w1) THEN [updateTrendingList(w1) EXCEPT !.loadError = TRUE]
        ELSE IF FavoritesThrows(w2) THEN [w3 EXCEPT !.loadError = TRUE]
        ELSE [w4 EXCEPT !.listening =
                  IF Has(w4, "quiz-content") THEN @ \cup {"quiz"} ELSE @]

\* the page load on the full markup
PageLoad(stored) == PageLoadWith(stored, {})

EmptyStorage ==
    [userPoints |-> NoItem, userStats |-> NoItem, achievementsUnlocked |-> NoItem,
     trendingCounts |-> NoItem, favorites |-> NoItem, compareList |-> NoItem]

\* the page is in the state w
Loaded(w) ==
    /\ userPoints = w.userPoints
    /\ userStats = w.userStats
    /\ achievementsUnlocked = w.achievementsUnlocked
    /\ trendingCounts = w.trendingCounts
    /\ favorites = w.favorites
    /\ compareList = w.compareList
    /\ accentColor = w.accentColor
    /\ scoreValue = w.scoreValue
    /\ badge = w.badge
    /\ trendingShown = w.trendingShown
    /\ favIcons = w.favIcons
    /\ favPanel = w.favPanel
    /\ cmpIcons = w.cmpIcons
    /\ cmpBar = w.cmpBar
    /\ modalCard = w.modalCard
    /\ searchValue = w.searchValue
    /\ selectedCategory = w.selectedCategory
    /\ sortMode = w.sortMode
    /\ gridOrder = w.gridOrder
    /\ visible = w.visible
    /\ quizIndex = w.quizIndex
    /\ quizAnswers = w.quizAnswers
    /\ quizShown = w.quizShown
    /\ statCalls = w.statCalls
    /\ compareClock = w.compareClock
    /\ insertedAt = w.insertedAt
    /\ lastEvicted = w.lastEvicted
    /\ memoryBoard = w.memoryBoard
    /\ memoryFlipped = w.memoryFlipped
    /\ memoryShown = w.memoryShown
    /\ firstMemoryCard = w.firstMemoryCard
    /\ memoryLock = w.memoryLock
    /\ memoryPairsMatched = w.memoryPairsMatched
    /\ memoryTimers = w.memoryTimers
    /\ restartShown = w.restartShown
    /\ memoryOpen = w.memoryOpen
    /\ memoryGames = w.memoryGames
    /\ memoryMatched = w.memoryMatched
    /\ missing = w.missing
    /\ listening = w.listening
    /\ loadError = w.loadError
    /\ tabs = w.tabs
    /\ tabWrites = w.tabWrites
    /\ favSection = w.favSection
    /\ compareContent = w.compareContent

\* first visit: nothing is stored
Init == Loaded(PageLoad(EmptyStorage))

-----------------------------------------------------------------------------
(* Event handlers *)

RECURSIVE SumOver(_, _)
SumOver(f, S) ==
    IF S = {} THEN 0
    ELSE LET x == CHOOSE y \in S : TRUE IN f[x] + SumOver(f, S \ {x})

\* counter-raising events are followed while fewer than MaxEvents were recorded
CanRecord == SumOver(statCalls, Metrics) < MaxEvents

\* card.dataset.name of a card whose markup has no data-name attribute
NoName == ""

\* a variant that counts the click whatever card.dataset.name holds
shopButtonClickUnguarded(w, name) ==
    recordStat(addPoints(
        updateTrendingList(saveTrendingCounts(w, BumpCount(getTrendingCounts(w), name))),
        1), "shopClicks")

\* the click listener of a Shop Now button, on the card called name; a
\* TypeError in updateTrendingList ends it before the points are granted
shopButtonClick(w, name) ==
    IF name = NoName THEN recordStat(addPoints(w, 1), "shopClicks")
    ELSE LET w1 == updateTrendingList(
                       saveTrendingCounts(w, BumpCount(getTrendingCounts(w), name)))
         IN  IF TrendingThrows(w) THEN w1
             ELSE recordStat(addPoints(w1, 1), "shopClicks")

\* the click listener of the favorite icon of the card called name
favoriteIconClick(w, name) == IF name = NoName THEN w ELSE toggleFavorite(w, name)

\* the click listener of the compare icon of the card called name
compareIconClick(w, name) == IF name = NoName THEN w ELSE toggleCompare(w, name)

\* click on the Shop Now button of a card
ShopClick(name) ==
    /\ "shop" \in listening
    /\ Commit(shopButtonClick(World, name))

\* click on the favorite icon of a card
FavoriteClick(name) ==
    /\ "favorite" \in listening
    /\ Commit(favoriteIconClick(World, name))

\* click on the Quick View button of a card
QuickViewClick(name) ==
    /\ "favorite" \in listening
    /\ Commit(recordStat(addPoints(openQuickView(World, name), 1), "quickViews"))

\* click on the Surprise Me button: a random card among the visible ones
SurpriseClick ==
    /\ "surprise" \in listening
    /\ \E name \in visible :
          Commit(recordStat(addPoints(openQuickView(World, name), 2), "surprises"))

\* 'result' event of the speech recognition
VoiceResult(transcript) ==
    /\ "voice" \in listening
    /\ LET w1 == filterCards([World EXCEPT !.searchValue = transcript])
       IN  Commit(recordStat(addPoints(w1, 1), "voiceSearches"))

\* 'input' event of the color picker
ColorInput(color) ==
    /\ "color" \in listening
    /\ color # accentColor
    /\ Commit(recordStat([World EXCEPT !.accentColor = color], "colorsChanged"))

\* 'change' event of the category filter
CategoryChange(category) ==
    /\ "category" \in listening
    /\ category # selectedCategory
    /\ LET w1 == filterCards([World EXCEPT !.selectedCategory = category])
       IN  Commit(recordStat(w1, "categoryChanges"))

\* a variant that shows every card in place of filtering again
sortFilterChangeShowingAll(w, mode) ==
    recordStat([sortCards([w EXCEPT !.sortMode = mode]) EXCEPT !.visible = Names],
               "sortChanges")

\* the change listener of the sort filter, with mode selected
sortFilterChange(w, mode) ==
    recordStat(filterCards(sortCards([w EXCEPT !.sortMode = mode])), "sortChanges")

\* 'change' event of the sort filter
SortChange(mode) ==
    /\ "sort" \in listening
    /\ mode # sortMode
    /\ Commit(sortFilterChange(World, mode))

\* 'input' event of the search box
SearchInput(value) ==
    /\ "search" \in listening
    /\ value # searchValue
    /\ Commit(filterCards([World EXCEPT !.searchValue = value]))

\* click on the compare icon of a card
CompareClick(name) ==
    /\ "compare" \in listening
    /\ name \in Range(getCompareList(World)) \/ compareClock < MaxCompareAdds
    /\ Commit(compareIconClick(World, name))

\* click on #compare-now-btn, which the compare bar holds
CompareNowClick ==
    /\ "compare" \in listening
    /\ cmpBar.shown
    /\ Commit(openCompareModal(World))

\* click on Start Quiz
StartQuiz ==
    /\ "quiz" \in listening
    /\ Commit(showQuizQuestion(World, 0, <<>>))

\* a variant that restarts with the responses given so far
RetakeQuizKeepingResponses ==
    /\ quizIndex >= Len(quizQuestions)
    /\ Commit(showQuizQuestion(World, 0, quizAnswers))

\* click on Retake Quiz, which the result view holds
RetakeQuiz ==
    /\ quizIndex >= Len(quizQuestions)
    /\ Commit(showQuizQuestion(World, 0, <<>>))

\* click on an answer button of the question shown
QuizAnswer(ans) ==
    /\ quizIndex \in 0..(Len(quizQuestions) - 1)
    /\ ans \in Range(quizQuestions[quizIndex + 1].answers)
    /\ Commit(showQuizQuestion(World, quizIndex + 1, Append(quizAnswers, ans)))

\* click on #start-memory-game
OpenMemoryClick(pick) ==
    /\ "memory" \in listening
    /\ memoryGames < MaxGames
    /\ Commit(openMemoryGame(World, pick))

\* click on #restart-memory-game, which is displayed once a game is complete
RestartMemoryClick(pick) ==
    /\ memoryOpen /\ restartShown
    /\ memoryGames < MaxGames
    /\ Commit(startMemoryGame(World, pick))

\* click on #close-memory-game
CloseMemoryClick ==
    /\ memoryOpen
    /\ Commit(closeMemoryGame(World))

\* click on a card of the board
MemoryCardClick(card) ==
    /\ memoryOpen
    /\ card \in DOMAIN memoryBoard
    /\ Commit(handleMemoryCardClick(World, card))

\* the 800 ms of the oldest flip-back callback have passed
FlipBackTimer ==
    /\ memoryTimers # <<>>
    /\ Commit(flipBack(World))

-----------------------------------------------------------------------------
(* Two tabs.  A tab runs its handlers to completion, but nothing orders the *)
(* getItem and the setItem of one tab against those of the other: the read *)
(* and the write of an operation are two steps.  The page elements follow  *)
(* the tab that wrote last.                                                *)

\* localStorage.getItem of the key that the operation reads
ItemRead(w, op) ==
    CASE op = "incrementStat" -> w.userStats
      [] op = "addPoints"     -> w.userPoints
      [] op = "toggleCompare" -> w.compareList

\* the storage as tab t found it when it read
WithRead(w, t) ==
    CASE w.tabs[t].op = "incrementStat" -> [w EXCEPT !.userStats = w.tabs[t].read]
      [] w.tabs[t].op = "addPoints"     -> [w EXCEPT !.userPoints = w.tabs[t].read]
      [] w.tabs[t].op = "toggleCompare" -> [w EXCEPT !.compareList = w.tabs[t].read]

\* the operation of tab t, run on the storage w
RunOperation(w, t) ==
    CASE w.tabs[t].op = "incrementStat" -> incrementStat(w, w.tabs[t].arg)
      [] w.tabs[t].op = "addPoints"     -> addPoints(w, 1)
      [] w.tabs[t].op = "toggleCompare" -> toggleCompare(w, w.tabs[t].arg)

\* getStats(), getPoints() or getCompareList() at the start of an operation
tabRead(w, t, op, arg) ==
    [w EXCEPT !.tabs[t] = [op |-> op, arg |-> arg, read |-> ItemRead(w, op)]]

\* a variant that reads the key again when it writes
tabWriteRereading(w, t) ==
    [RunOperation(w, t) EXCEPT !.tabs[t] = Idle, !.tabWrites = @ + 1]

\* the rest of the operation: the value read, updated, goes back whole
tabWrite(w, t) ==
    [RunOperation(WithRead(w, t), t) EXCEPT !.tabs[t] = Idle, !.tabWrites = @ + 1]

\* the operations started, written or not
TabsStarted == tabWrites + Cardinality({t \in Tabs : tabs[t].op # "idle"})

TabRead(t, op, arg) ==
    /\ tabs[t].op = "idle"
    /\ TabsStarted < MaxTabWrites
    /\ Commit(tabRead(World, t, op, arg))

TabWrite(t) ==
    /\ tabs[t].op # "idle"
    /\ Commit(tabWrite(World, t))

-----------------------------------------------------------------------------
(* Inputs *)

Colors == {DefaultAccent, "#ff0000"}

Queries == { <<>>, <<"s","t">>, <<"V","E","S","T">>, <<" ","y","o"," ">>,
             <<"e"," ">>, <<"z">> }

Transcripts == { <<"V","E","S","T">> }

AllAnswers == UNION {Range(quizQuestions[i].answers) : i \in DOMAIN quizQuestions}

-----------------------------------------------------------------------------
(* Specifications.  Each follows the handlers of one part of the page, from *)
(* a page load; the inputs of the other parts are kept to one value each.   *)

OneName == {"BOBOVR"}
OneAnswerEach == {quizQuestions[i].answers[1] : i \in DOMAIN quizQuestions}

\* A first visit: every handler that records a counter or grants points
\* a click that takes a favorite away records nothing and is always followed
CanFavorite(name) == name \in Range(getFavorites(World)) \/ CanRecord

\* so is an answer that does not end the quiz
CanAnswer == quizIndex + 1 < Len(quizQuestions) \/ CanRecord

Next ==
    \/ \E name \in OneName : CanRecord /\ ShopClick(name)
    \/ \E name \in OneName : CanFavorite(name) /\ FavoriteClick(name)
    \/ \E name \in OneName : CanRecord /\ QuickViewClick(name)
    \/ CanRecord /\ SurpriseClick
    \/ \E t \in Transcripts : CanRecord /\ VoiceResult(t)
    \/ \E color \in Colors : CanRecord /\ ColorInput(color)
    \/ \E category \in {"All", "Haptics"} : CanRecord /\ CategoryChange(category)
    \/ \E mode \in {"default", "alphabetical"} : CanRecord /\ SortChange(mode)
    \/ StartQuiz
    \/ RetakeQuiz
    \/ \E ans \in OneAnswerEach : CanAnswer /\ QuizAnswer(ans)

Spec == Init /\ [][Next]_vars

\* Favorites, over every card of the grid
NextFavorites == \E name \in Names : CanFavorite(name) /\ FavoriteClick(name)

SpecFavorites == Init /\ [][NextFavorites]_vars

\* The comparison list, over every card of the grid
NextCompare == \E name \in Names : CompareClick(name)

SpecCompare == Init /\ [][NextCompare]_vars

\* The catalog: search, category, sort order, and the shop clicks that feed
\* the popularity order
CatalogOpen == SumOver(statCalls, Metrics) < MaxCatalogEvents

NextCatalog ==
    \/ \E q \in Queries : SearchInput(q)
    \/ \E t \in Transcripts : CatalogOpen /\ VoiceResult(t)
    \/ \E category \in Categories \cup {"All"} : CatalogOpen /\ CategoryChange(category)
    \/ \E mode \in SortModes : CatalogOpen /\ SortChange(mode)
    \/ \E name \in Names : CatalogOpen /\ ShopClick(name)

SpecCatalog == Init /\ [][NextCatalog]_vars

\* The quiz, with every answer
NextQuiz ==
    \/ StartQuiz
    \/ RetakeQuiz
    \/ \E ans \in AllAnswers : CanAnswer /\ QuizAnswer(ans)

SpecQuiz == Init /\ [][NextQuiz]_vars

-----------------------------------------------------------------------------
(* A returning visitor.  The page loads with a score stored by earlier     *)
(* visits, with counters stored at or just below the thresholds of the     *)
(* achievements, and with the achievementsUnlocked key lost or unreadable. *)

\* stored scores reach this far below each tier
MaxBelowTier == 2

StoredPoints ==
    {0} \cup {t - d : t \in {EnthusiastPoints, ProPoints, MasterPoints}, d \in 1..MaxBelowTier}

ThresholdOf(metric) ==
    IF \E i \in DOMAIN achievementDefs : achievementDefs[i].metric = metric
    THEN achievementDefs[CHOOSE i \in DOMAIN achievementDefs :
                             achievementDefs[i].metric = metric].threshold
    ELSE 0

StatsAtThresholds == [m \in Metrics |-> ThresholdOf(m)]
StatsBelowThresholds ==
    [m \in Metrics |-> IF ThresholdOf(m) > 0 THEN ThresholdOf(m) - 1 ELSE 0]

StoredStorages ==
    {[EmptyStorage EXCEPT !.userPoints = p, !.userStats = s, !.achievementsUnlocked = u] :
        p \in {NoItem, BadItem} \cup {Item(n) : n \in StoredPoints},
        s \in {NoItem, Item(StatsBelowThresholds), Item(StatsAtThresholds)},
        u \in {NoItem, BadItem}}

InitStored == \E stored \in StoredStorages : Loaded(PageLoad(stored))

NextStored ==
    \/ \E name \in OneName : CanRecord /\ ShopClick(name)
    \/ \E name \in OneName : CanFavorite(name) /\ FavoriteClick(name)
    \/ \E color \in Colors : CanRecord /\ ColorInput(color)

SpecStored == InitStored /\ [][NextStored]_vars

\* A returning visitor who compares.  The counters are stored at the
\* thresholds and no achievement is recorded as unlocked, so that the next
\* evaluation of the achievements has something to unlock; the visitor
\* makes at most one rewarded click, and then toggles compare icons until
\* the list has been filled and has evicted a member.
CompareStorages ==
    {stored \in StoredStorages :
        /\ stored.userStats = Item(StatsAtThresholds)
        /\ stored.userPoints \in {NoItem, Item(EnthusiastPoints - 1)}}

InitCompareStored == \E stored \in CompareStorages : Loaded(PageLoad(stored))

NextCompareStored ==
    \/ \E name \in OneName :
          /\ compareClock = 0 /\ SumOver(statCalls, Metrics) = 0
          /\ ShopClick(name)
    \/ \E name \in OneName :
          /\ compareClock = 0
          /\ name \in Range(getFavorites(World)) \/ SumOver(statCalls, Metrics) = 0
          /\ FavoriteClick(name)
    \/ \E name \in Names :
          /\ name \in Range(getCompareList(World)) \/ compareClock <= MaxCompare
          /\ CompareClick(name)

SpecCompareStored == InitCompareStored /\ [][NextCompareStored]_vars

-----------------------------------------------------------------------------
(* Unreadable storage.  The page loads with each key that holds JSON either *)
(* absent or holding text that JSON.parse rejects.                          *)

MalformedStorages ==
    {[EmptyStorage EXCEPT !.userStats = s, !.achievementsUnlocked = u,
                          !.trendingCounts = t, !.favorites = f, !.compareList = c] :
        s \in {NoItem, BadItem}, u \in {NoItem, BadItem}, t \in {NoItem, BadItem},
        f \in {NoItem, BadItem}, c \in {NoItem, BadItem}}

InitMalformed == \E stored \in MalformedStorages : Loaded(PageLoad(stored))

NextMalformed ==
    \/ \E name \in OneName : CanRecord /\ ShopClick(name)
    \/ \E name \in OneName : CanFavorite(name) /\ FavoriteClick(name)
    \/ \E name \in OneName : CompareClick(name)
    \/ \E mode \in {"default", "popularity"} : CanRecord /\ SortChange(mode)

SpecMalformed == InitMalformed /\ [][NextMalformed]_vars

-----------------------------------------------------------------------------
(* Incomplete markup.  The page loads, on a first visit, with any subset of *)
(* these elements missing; the clicks that follow are those of the handlers *)
(* that the load has registered.                                            *)

OptionalElements ==
    {"score-value", "trending-list", "trending-section", "favorites-list",
     "favorites-section", "compare-bar", "quiz-content"}

InitMarkup ==
    \E absent \in SUBSET OptionalElements : Loaded(PageLoadWith(EmptyStorage, absent))

\* a few events are followed on each page
MarkupOpen == SumOver(statCalls, Metrics) + compareClock + memoryGames < MaxCatalogEvents

NextMarkup ==
    \/ \E name \in OneName :
          /\ MarkupOpen
          /\ \A i \in DOMAIN getTrendingCounts(World) :
                 getTrendingCounts(World)[i][2] < MaxCatalogEvents
          /\ ShopClick(name)
    \/ \E name \in OneName : MarkupOpen /\ FavoriteClick(name)
    \/ \E name \in OneName : MarkupOpen /\ CompareClick(name)
    \/ StartQuiz
    \/ \E ans \in OneAnswerEach : MarkupOpen /\ QuizAnswer(ans)
    \/ MarkupOpen /\ OpenMemoryClick([i \in 1..Len(Deck) |-> i])

SpecMarkup == InitMarkup /\ [][NextMarkup]_vars

-----------------------------------------------------------------------------
(* The persisted lists.  Favorite and compare clicks on two cards of the   *)
(* grid and on a card whose markup carries no data-name, and shop clicks   *)
(* on the first and the last of these.                                     *)

ClickedCards == {CardNames[1], CardNames[2], NoName}

NextLists ==
    \/ \E name \in {CardNames[1], NoName} : CanRecord /\ ShopClick(name)
    \/ \E name \in ClickedCards : CanFavorite(name) /\ FavoriteClick(name)
    \/ \E name \in ClickedCards : CompareClick(name)

SpecLists == Init /\ [][NextLists]_vars

-----------------------------------------------------------------------------
(* The leaderboard: shop clicks on every card of the grid *)

NextTrending == \E name \in Names : CanRecord /\ ShopClick(name)

SpecTrending == Init /\ [][NextTrending]_vars

-----------------------------------------------------------------------------
(* Two tabs on one storage: a counter, the score and the comparison list *)

TabOperations ==
    {<<"incrementStat", "shopClicks">>, <<"addPoints", "">>,
     <<"toggleCompare", CardNames[1]>>, <<"toggleCompare", CardNames[2]>>}

NextTabs ==
    \/ \E t \in Tabs : \E o \in TabOperations : TabRead(t, o[1], o[2])
    \/ \E t \in Tabs : TabWrite(t)

SpecTabs == Init /\ [][NextTabs]_vars

-----------------------------------------------------------------------------
(* The display of the lists: favorite and compare toggles and the          *)
(* comparison view, over every card of the grid                            *)

DisplayOpen == SumOver(statCalls, Metrics) + compareClock < MaxEvents

NextDisplay ==
    \/ \E name \in OneName :
          (name \in Range(getFavorites(World)) \/ DisplayOpen) /\ FavoriteClick(name)
    \/ \E name \in Names :
          (name \in Range(getCompareList(World)) \/ DisplayOpen) /\ CompareClick(name)
    \/ CompareNowClick

SpecDisplay == Init /\ [][NextDisplay]_vars

-----------------------------------------------------------------------------
(* What the page holds, as the script reads it *)

Stats == getStats(World)
Unlocked == getUnlockedAchievements(World)
Score == getPoints(World)
Favs == getFavorites(World)
CmpList == getCompareList(World)

-----------------------------------------------------------------------------
\* The memory game.

IdentityPick == [i \in 1..16 |-> i]
PairedPick == [i \in 1..16 |-> IF i % 2 = 1 THEN (i + 1) \div 2 ELSE 8 + i \div 2]
ShufflePicks == {IdentityPick, PairedPick}

IconRank == [icon \in Range(memoryIcons) |->
                CHOOSE i \in DOMAIN memoryIcons : memoryIcons[i] = icon]

\* the ranks of the icons of which no card is matched
UnmatchedRanks ==
    {IconRank[memoryBoard[c]] : c \in DOMAIN memoryBoard \ memoryMatched}

\* the cards whose clicks are followed: the player works through the icons
\* in order, turning the cards of the first icon that is not matched yet
\* and of the icon after it, and any card of an icon before it
CardsFollowed ==
    {c \in DOMAIN memoryBoard :
        UnmatchedRanks = {} \/ \E r \in UnmatchedRanks :
            /\ \A q \in UnmatchedRanks : r <= q
            /\ IconRank[memoryBoard[c]] <= r + 1}

NextMemory ==
    \/ \E pick \in ShufflePicks : OpenMemoryClick(pick)
    \/ \E pick \in ShufflePicks : RestartMemoryClick(pick)
    \/ CloseMemoryClick
    \/ \E card \in CardsFollowed : MemoryCardClick(card)
    \/ FlipBackTimer

SpecMemory == Init /\ [][NextMemory]_vars

\* setTimeout runs each callback once its delay has passed
SpecMemoryFair == SpecMemory /\ WF_vars(FlipBackTimer)

-----------------------------------------------------------------------------
(* The achievements.  A first visit, followed through a few events of any  *)
(* kind, and further while one handler alone has raised counters, up to    *)
(* the highest threshold; the memory game is played in runs of its own.    *)

EventsRecorded == SumOver(statCalls, Metrics)

\* no counter but those of ms has been raised
Only(ms) == \A m \in Metrics \ ms : statCalls[m] = 0

Followed(ms) ==
    /\ memoryGames = 0
    /\ \/ EventsRecorded < MaxCatalogEvents
       \/ Only(ms) /\ EventsRecorded < MaxSameEvents

MemoryMetrics == {"memoryMatches", "memoryGamesCompleted"}

NextAchievements ==
    \/ \E name \in OneName : Followed({"shopClicks"}) /\ ShopClick(name)
    \/ \E name \in OneName :
          /\ name \in Range(getFavorites(World)) \/ Followed({"favoritesAdded"})
          /\ FavoriteClick(name)
    \/ \E name \in OneName : Followed({"quickViews"}) /\ QuickViewClick(name)
    \/ Followed({"surprises"}) /\ SurpriseClick
    \/ \E t \in Transcripts : Followed({"voiceSearches"}) /\ VoiceResult(t)
    \/ \E color \in Colors : Followed({"colorsChanged"}) /\ ColorInput(color)
    \/ \E category \in {"All", "Haptics"} :
          Followed({"categoryChanges"}) /\ CategoryChange(category)
    \/ \E mode \in {"default", "alphabetical"} :
          Followed({"sortChanges"}) /\ SortChange(mode)
    \/ StartQuiz
    \/ \E ans \in OneAnswerEach :
          /\ quizIndex + 1 < Len(quizQuestions) \/ Followed({"quizCompleted"})
          /\ QuizAnswer(ans)
    \/ Only(MemoryMetrics) /\ memoryGames = 0
          /\ OpenMemoryClick(IdentityPick)
    \/ \E card \in CardsFollowed : MemoryCardClick(card)
    \/ FlipBackTimer

SpecAchievements == Init /\ [][NextAchievements]_vars

-----------------------------------------------------------------------------
(* C1 *)

\* C1: from empty storage, the persisted counter of every metric equals the
\* number of incrementStat calls made for it, and no step lowers a counter or
\* raises one by more than the calls the step makes for it.
C1_CountersEqualCalls ==
    /\ [](\A m \in Metrics : Stats[m] = statCalls[m])
    /\ [][\A m \in Metrics : /\ Stats'[m] >= Stats[m]
                             /\ Stats'[m] - Stats[m] = statCalls'[m] - statCalls[m]]_vars

\* two counters have been raised, one of them twice
C1_Witness == Stats["shopClicks"] = 2 /\ Stats["favoritesAdded"] = 1

-----------------------------------------------------------------------------
(* C2 *)

\* C2: within one tab, an achievement that is unlocked stays unlocked in
\* every later state.
C2_UnlockMonotone ==
    [][\A k \in AchievementKeys : Unlocked[k] => Unlocked'[k]]_vars

\* quizMaster was unlocked by the first completion, its counter has moved on
\* since, and a second achievement was unlocked after it
C2_Witness ==
    /\ Unlocked["quizMaster"]
    /\ Stats["quizCompleted"] = 2
    /\ Unlocked["stylist"]

-----------------------------------------------------------------------------
(* C3 *)

\* the member of the compare list that was inserted first
OldestMember(list) ==
    CHOOSE n \in Range(list) : \A m \in Range(list) : insertedAt[n] <= insertedAt[m]

\* C3: the compare list never holds more than 3 names; toggling a name that
\* is not in a full list drops the member inserted earliest, which is the
\* one at index 0, keeps the two others in order and appends the name last.
C3_CompareFifo ==
    /\ [](Len(CmpList) <= 3)
    /\ [][\A name \in Names :
            (/\ name \notin Range(CmpList)
             /\ Len(CmpList) = 3
             /\ name \in Range(CmpList'))
            => /\ CmpList' = <<CmpList[2], CmpList[3], name>>
               /\ OldestMember(CmpList) = CmpList[1]
               /\ lastEvicted' = CmpList[1]]_vars

\* after five insertions or more, a toggle has just evicted a member of a
\* full list, and the evicted member had been inserted before the three kept
C3_Witness ==
    /\ lastEvicted # "none"
    /\ Len(CmpList) = 3
    /\ compareClock >= 5
    /\ \A m \in Range(CmpList) : insertedAt[lastEvicted] < insertedAt[m]

-----------------------------------------------------------------------------
(* C4 *)

\* the page after toggleFavorite(name) was called twice in a row
ToggledTwice(name) == toggleFavorite(toggleFavorite(World, name), name)

\* the points the two calls granted, less the bonus of an achievement
\* unlocked by them
FavoriteReward(name) ==
    LET w2 == ToggledTwice(name)
        new == {k \in AchievementKeys : getUnlockedAchievements(w2)[k] /\ ~Unlocked[k]}
    IN  getPoints(w2) - Score - (IF new # {} THEN 5 ELSE 0)

\* C4 as stated: two toggles in a row restore the favorites sequence exactly,
\* and grant the favorite reward at most once.
C4_Original ==
    \A name \in Names :
        /\ getFavorites(ToggledTwice(name)) = Favs
        /\ FavoriteReward(name) <= 5

\* C4 as amended: two toggles in a row restore the set of favorites; the
\* sequence is restored exactly when the name was not a member or was the
\* last member, otherwise the name has moved to the end and the others keep
\* their order; the favorite reward is granted exactly once.
C4_ToggleTwice ==
    \A name \in Names :
        LET after == getFavorites(ToggledTwice(name))
            i == indexOf(Favs, name)
        IN  /\ Range(after) = Range(Favs)
            /\ Len(after) = Len(Favs)
            /\ (i = 0 \/ i = Len(Favs)) => after = Favs
            /\ (i > 0 /\ i < Len(Favs)) => after = Append(RemoveAt(Favs, i), name)
            /\ FavoriteReward(name) = 5
            /\ getStats(ToggledTwice(name))["favoritesAdded"] = Stats["favoritesAdded"] + 1

\* three favorites, one of which was removed and added again
C4_Witness == Len(Favs) = 3 /\ Stats["favoritesAdded"] = 4

-----------------------------------------------------------------------------
(* C5 *)

-----------------------------------------------------------------------------
(* C6 *)

\* C6: the persisted score is a non-negative integer, and no step lowers it.
C6_ScoreMonotone ==
    /\ [](Score \in Nat)
    /\ [][Score' >= Score]_vars

\* the score has grown over several rewarded events
C6_Witness == Score >= 30 /\ Cardinality({m \in Metrics : statCalls[m] > 0}) >= 3

-----------------------------------------------------------------------------
(* C7 *)

\* C7: in every state from the page load on, the badge shown is the tier of
\* the persisted score: top from 100, middle from 50 to 99, entry from 20 to
\* 49, none below 20; and the score shown is the persisted score.
C7_BadgeIsTier ==
    /\ (badge = "VR Master") <=> (Score >= 100)
    /\ (badge = "VR Pro") <=> (Score >= 50 /\ Score < 100)
    /\ (badge = "Enthusiast") <=> (Score >= 20 /\ Score < 50)
    /\ (badge = "") <=> (Score < 20)
    /\ scoreValue = Score

\* an addPoints call has brought the score to exactly 100
C7_Witness ==
    /\ Score = 100
    /\ badge = "VR Master"
    /\ SumOver(statCalls, Metrics) >= 1

-----------------------------------------------------------------------------
(* C8 *)

\* the text of a card contains q, whatever the case of either
ContainsIgnoringCase(name, q) ==
    \E i \in 0..(Len(textContent(World, name)) - Len(q)) :
        \A j \in 1..Len(q) :
            ToLowerChar(textContent(World, name)[i + j]) = ToLowerChar(q[j])

CategorySelects(name) == selectedCategory = "All" \/ CardCategory[name] = selectedCategory

\* C8 as stated: a card is visible iff its category is selected and its text
\* contains the query, the value of the search box, whatever the case.
C8_Original ==
    \A name \in Names :
        name \in visible <=> (CategorySelects(name) /\ ContainsIgnoringCase(name, searchValue))

\* C8 as amended: a card is visible iff its category is selected and its text
\* contains, whatever the case, the value of the search box with the white
\* space at its two ends removed.
C8_VisibleIffMatches ==
    \A name \in Names :
        name \in visible <=>
            (CategorySelects(name) /\ ContainsIgnoringCase(name, trim(searchValue)))

\* a category is selected and the query has spaces around it: the one card
\* of the category whose text contains the query without them is shown
C8_Witness ==
    /\ searchValue = <<" ","y","o"," ">>
    /\ selectedCategory = "Power"
    /\ visible = {"YOGES"}

-----------------------------------------------------------------------------
(* C9 *)

AlphabeticalSelected ==
    sortMode = "alphabetical" /\ selectedCategory = "All" /\ searchValue = <<>>

IsWholeGrid(order) == Len(order) = Len(CardNames) /\ Range(order) = Names

\* C9 as stated: with alphabetical order, category All and an empty query,
\* every card is visible and the names of the grid ascend in lexicographic
\* order, code unit by code unit.
C9_Original ==
    AlphabeticalSelected =>
        /\ visible = Names
        /\ IsWholeGrid(gridOrder)
        /\ \A i, j \in DOMAIN gridOrder :
              i < j => CodeUnitCompare(Chars[gridOrder[i]], Chars[gridOrder[j]]) < 0

\* C9 as amended: with alphabetical order, category All and an empty query,
\* every card is visible and the names of the grid ascend in the order of
\* localeCompare, in which letters compare first without regard to case.
C9_AlphabeticalOrder ==
    AlphabeticalSelected =>
        /\ visible = Names
        /\ IsWholeGrid(gridOrder)
        /\ \A i, j \in DOMAIN gridOrder :
              i < j => localeCompare(Chars[gridOrder[i]], Chars[gridOrder[j]]) < 0

\* alphabetical order is selected, and All was selected again after another
\* category
C9_Witness ==
    /\ AlphabeticalSelected
    /\ statCalls["sortChanges"] >= 1
    /\ statCalls["categoryChanges"] >= 2
    /\ gridOrder = <<"bHaptics", "BOBOVR", "Casematix", "YOGES">>

-----------------------------------------------------------------------------
(* C10 *)

\* s holds the members of t, in the order of t
RECURSIVE IsSubsequence(_, _)
IsSubsequence(t, s) ==
    IF t = <<>> THEN TRUE
    ELSE IF s = <<>> THEN FALSE
    ELSE IF Head(s) = Head(t) THEN IsSubsequence(Tail(t), Tail(s))
    ELSE IsSubsequence(t, Tail(s))

\* C10: for the answers Gaming, High, Comfort the candidates hold the six
\* names of the claim, the use-case ones before the priority ones before the
\* budget ones, no name twice, and the result view shows exactly the first
\* four candidates.
C10_GamingHighComfort ==
    (quizIndex = 3 /\ quizAnswers = <<"Gaming", "High", "Comfort">>) =>
        LET recs == QuizCandidates(quizAnswers)
        IN  /\ IsSubsequence(<<"VR Gun Stock (AMVR)", "Shadow Shot VR Bow",
                               "KIWI Design K4 Mini Head Strap",
                               "BOBOVR M3 Pro Head Strap",
                               "Roto VR Explorer Chair", "VIVE Ultimate Tracker">>, recs)
            /\ Cardinality(Range(recs)) = Len(recs)
            /\ Len(quizShown) = 4
            /\ quizShown = SubSeq(recs, 1, 4)
            /\ quizShown = <<"VR Gun Stock (AMVR)", "Shadow Shot VR Bow",
                             "Weighted Golf Club Attachment (DriVR Elite)",
                             "KIWI Design K4 Mini Head Strap">>

\* the quiz was answered Gaming, High, Comfort and shows its result
C10_Witness ==
    /\ quizIndex = 3
    /\ quizAnswers = <<"Gaming", "High", "Comfort">>
    /\ Stats["quizCompleted"] >= 1

-----------------------------------------------------------------------------
(* C11 *)

ReversedPick == [i \in 1..16 |-> 17 - i]

\* 16 cards, 8 symbols, each symbol on two cards
IsFullBoard(board) ==
    /\ Len(board) = 16
    /\ Cardinality(Range(board)) = 8
    /\ \A icon \in Range(board) :
          Cardinality({c \in DOMAIN board : board[c] = icon}) = 2

\* C11: every startMemoryGame call, whatever the state it is made in and
\* whatever the permutation of the shuffle, yields a board of 16 cards, all
\* face-down, with 8 distinct symbols, each on exactly two cards; and the
\* board of a running game is such a board.
C11_FullBoard ==
    /\ memoryGames > 0 => IsFullBoard(memoryBoard)
    /\ \A pick \in ShufflePicks \cup {ReversedPick} :
          LET w == startMemoryGame(World, pick)
          IN  /\ IsFullBoard(w.memoryBoard)
              /\ w.memoryFlipped = {}
              /\ w.memoryShown = {}

\* a second game was started over a game with matched pairs, with another
\* permutation than the first
C11_Witness ==
    /\ memoryGames = 2
    /\ memoryBoard = Shuffle(Deck, PairedPick)
    /\ memoryFlipped = {}
    /\ Stats["memoryMatches"] >= 1

-----------------------------------------------------------------------------
(* C12 *)

\* C12: the pair counter stays within 0..8 and counts the matched cards by
\* twos; memoryGamesCompleted, called and stored, rises by exactly 1 at the
\* step that brings the pair counter from 7 to 8 and is unchanged by every
\* other click, restart, opening, closing and flip-back callback.
C12_CompletedOncePerGame ==
    /\ [](/\ memoryPairsMatched \in 0..8
          /\ Cardinality(memoryMatched) = 2 * memoryPairsMatched
          /\ restartShown <=> memoryPairsMatched = 8)
    /\ [][LET completes == memoryPairsMatched = 7 /\ memoryPairsMatched' = 8
              rise == IF completes THEN 1 ELSE 0
          IN  /\ statCalls'["memoryGamesCompleted"] = statCalls["memoryGamesCompleted"] + rise
              /\ Stats'["memoryGamesCompleted"] = Stats["memoryGamesCompleted"] + rise]_vars

\* a game was given up after some matches, with a flip-back awaited, and
\* the game after it is complete: one completion is recorded
C12_Witness ==
    /\ memoryGames = 2
    /\ memoryPairsMatched = 8
    /\ Stats["memoryMatches"] > 8
    /\ Stats["memoryGamesCompleted"] = 1
    /\ memoryTimers # <<>> /\ Head(memoryTimers) = 0

-----------------------------------------------------------------------------
(* C13 *)

\* C13: the quiz shows nothing, a question Q0..Q2 or the result; the
\* responses are as many as the questions answered; and every step either
\* appends one answer of the question shown and moves to the next state, or
\* goes to Q0 with no responses.
C13_QuizLinear ==
    /\ [](/\ quizIndex \in -1..3
          /\ quizIndex >= 0 => Len(quizAnswers) = quizIndex
          /\ quizIndex = -1 => quizAnswers = <<>>)
    /\ [][\/ /\ quizIndex \in 0..2
             /\ quizIndex' = quizIndex + 1
             /\ \E ans \in Range(quizQuestions[quizIndex + 1].answers) :
                   quizAnswers' = Append(quizAnswers, ans)
          \/ /\ quizIndex' = 0
             /\ quizAnswers' = <<>>]_vars

\* the quiz was completed, retaken, and two questions of the second run are
\* answered
C13_Witness ==
    /\ Stats["quizCompleted"] = 1
    /\ quizIndex = 2
    /\ Len(quizAnswers) = 2

-----------------------------------------------------------------------------
(* C14 *)

\* C14: the step that reaches the result from Q2 adds 10 to the score (and
\* the bonus of 5 when it unlocks an achievement) and raises quizCompleted,
\* called and stored, by 1; every other step of the quiz, a start, a
\* restart or an answer to Q0 or Q1, leaves the score and quizCompleted as
\* they are.
C14_RewardOncePerCompletion ==
    [][LET reaches == quizIndex = 2 /\ quizIndex' = 3
           bonus == IF Unlocked' # Unlocked THEN 5 ELSE 0
       IN  /\ reaches =>
                /\ Score' = Score + 10 + bonus
                /\ statCalls'["quizCompleted"] = statCalls["quizCompleted"] + 1
                /\ Stats'["quizCompleted"] = Stats["quizCompleted"] + 1
           /\ ~reaches =>
                /\ Score' = Score
                /\ statCalls'["quizCompleted"] = statCalls["quizCompleted"]
                /\ Stats' = Stats]_vars

\* the quiz was completed twice and restarted after each: two rewards and
\* the bonus of quizMaster
C14_Witness ==
    /\ Stats["quizCompleted"] = 2
    /\ Score = 25
    /\ quizIndex = 0

-----------------------------------------------------------------------------
(* C15 *)

\* the item, with text that JSON.parse rejects taken out of the storage
Readable(item) == IF item.kind = "malformed" THEN NoItem ELSE item

\* the page, with every unparseable value of a JSON key taken out
Cleaned(w) ==
    [w EXCEPT !.userStats = Readable(@), !.achievementsUnlocked = Readable(@),
              !.trendingCounts = Readable(@), !.favorites = Readable(@),
              !.compareList = Readable(@)]

StorageOf(w) ==
    [userPoints |-> w.userPoints, userStats |-> w.userStats,
     achievementsUnlocked |-> w.achievementsUnlocked,
     trendingCounts |-> w.trendingCounts, favorites |-> w.favorites,
     compareList |-> w.compareList]

\* C15: in every state, whichever of the five JSON keys hold unparseable
\* text, a page load, a shop click, a favorite toggle, a compare toggle, a
\* sort and a counter update each leave the page as they leave the page
\* without those values, up to the unparseable values they do not write;
\* and each writes a parseable value under the key that it updates.
C15_MalformedAsAbsent ==
    /\ Cleaned(PageLoad(StorageOf(World))) = PageLoad(StorageOf(Cleaned(World)))
    /\ \A name \in Names :
          /\ Cleaned(shopButtonClick(World, name)) = shopButtonClick(Cleaned(World), name)
          /\ shopButtonClick(World, name).trendingCounts.kind = "value"
          /\ shopButtonClick(World, name).userStats.kind = "value"
          /\ Cleaned(toggleFavorite(World, name)) = toggleFavorite(Cleaned(World), name)
          /\ toggleFavorite(World, name).favorites.kind = "value"
          /\ Cleaned(toggleCompare(World, name)) = toggleCompare(Cleaned(World), name)
          /\ toggleCompare(World, name).compareList.kind = "value"
    /\ \A mode \in SortModes :
          Cleaned(filterCards(sortCards([World EXCEPT !.sortMode = mode])))
              = filterCards(sortCards([Cleaned(World) EXCEPT !.sortMode = mode]))
    /\ \A metric \in Metrics :
          LET after == recordStat(World, metric)
          IN  /\ Cleaned(after) = recordStat(Cleaned(World), metric)
              /\ after.userStats.kind = "value"
              /\ getUnlockedAchievements(after) # Unlocked
                     => after.achievementsUnlocked.kind = "value"

\* the handlers have written counters, trending counts and favorites, with the
\* achievements and the comparison list still unparseable: both were read,
\* by checkAchievements and by the page load
C15_Witness ==
    /\ achievementsUnlocked.kind = "malformed"
    /\ compareList.kind = "malformed"
    /\ trendingCounts.kind = "value"
    /\ Stats["shopClicks"] >= 1
    /\ Favs # <<>>

-----------------------------------------------------------------------------
(* C16 *)

\* the handlers of the features that C16 names
FeatureListeners == {"shop", "favorite", "compare", "memory"}

\* C16: whichever optional elements are missing, the page load has ended
\* without an error and has registered the handlers of favorites,
\* comparison, memory game and shop clicks, and of the quiz when its
\* container exists; a shop click grants its point, a favorite toggle and a
\* compare toggle write their lists.
C16_Original ==
    /\ ~loadError
    /\ FeatureListeners \subseteq listening
    /\ Has(World, "quiz-content") => "quiz" \in listening
    /\ \A name \in Names :
          /\ getPoints(shopButtonClick(World, name)) > Score
          /\ (name \in Range(getFavorites(toggleFavorite(World, name))))
                 = (name \notin Range(Favs))
          /\ (name \in Range(getCompareList(toggleCompare(World, name))))
                 = (name \notin Range(CmpList))

-----------------------------------------------------------------------------
(* C17 *)

\* the keys of the stored trendingCounts object
TrendingKeys == {getTrendingCounts(World)[i][1] : i \in DOMAIN getTrendingCounts(World)}

\* C17: from empty storage, every key of trendingCounts and every member of
\* favorites is the data-name of a card of the page.
C17_NamesOfCards ==
    /\ TrendingKeys \subseteq Names
    /\ Range(Favs) \subseteq Names

\* both lists hold names, and a Shop Now click on the card without a
\* data-name has been recorded: more clicks than the counts add up to
C17_Witness ==
    /\ TrendingKeys # {}
    /\ Favs # <<>>
    /\ SumOver([n \in Names |-> CountOf(getTrendingCounts(World), n)], Names)
           < Stats["shopClicks"]

-----------------------------------------------------------------------------
(* C18 *)

NoDuplicates(list) ==
    \A i \in DOMAIN list : \A j \in DOMAIN list : list[i] = list[j] => i = j

-----------------------------------------------------------------------------
(* C19 *)

\* s without the later occurrences of its members
RECURSIVE FirstOccurrences(_)
FirstOccurrences(s) ==
    IF s = <<>> THEN <<>>
    ELSE LET front == FirstOccurrences(SubSeq(s, 1, Len(s) - 1))
             last == s[Len(s)]
         IN  IF \E i \in DOMAIN front : front[i] = last THEN front
             ELSE Append(front, last)

\* the list the claim gives for the answers: the first 4 of the use-case,
\* then priority, then budget candidates, without repetitions
ExpectedShown(answers) ==
    LET all == FirstOccurrences(UseCaseRecs(answers[1]) \o PriorityRecs(answers[3])
                                   \o BudgetRecs(answers[2]))
    IN  SubSeq(all, 1, IF Len(all) < 4 THEN Len(all) ELSE 4)

\* C19: whenever the result is shown, the list shown has no name twice, has
\* at most 4 names and is the first 4 of the use-case, priority and budget
\* candidates of the answers given, each kept at its first occurrence; and
\* this is what the rules give for each of the 48 triples of answers.
C19_ShownList ==
    /\ quizIndex = 3 =>
          /\ quizShown = ExpectedShown(quizAnswers)
          /\ Len(quizShown) <= 4
          /\ Cardinality(Range(quizShown)) = Len(quizShown)
    /\ Cardinality(QuizAnswerSets) = 48
    /\ \A answers \in QuizAnswerSets :
          displayRecommendations(World, answers).quizShown = ExpectedShown(answers)

\* answers whose use-case and priority candidates overlap
C19_Witness ==
    /\ quizIndex = 3
    /\ quizAnswers = <<"Social", "High", "Audio">>
    /\ quizShown = <<"SteelSeries Arctis Nova 4 Headphones",
                     "PRISMXR Low-Latency Earphones",
                     "KIWI Design K4 Duo Audio & Battery Strap",
                     "Roto VR Explorer Chair">>

-----------------------------------------------------------------------------
(* C20 *)

\* C20: the matched cards are face-up, with their icons shown, in every
\* state; within a game no step takes a card out of the matched ones; and a
\* step that matches makes a pair of the pending card and another card of
\* the same symbol, raises the pair counter by 1, adds 5 to the score (and
\* the bonus of an achievement it unlocks) and clears the pending card.
C20_MatchedStayUp ==
    /\ [](memoryMatched \subseteq (memoryFlipped \cap memoryShown))
    /\ [][memoryGames' = memoryGames => memoryMatched \subseteq memoryMatched']_vars
    /\ [][(memoryGames' = memoryGames /\ memoryMatched' # memoryMatched) =>
            /\ \E c \in DOMAIN memoryBoard :
                  /\ c # firstMemoryCard
                  /\ memoryBoard[c] = memoryBoard[firstMemoryCard]
                  /\ memoryMatched' = memoryMatched \cup {c, firstMemoryCard}
            /\ memoryPairsMatched' = memoryPairsMatched + 1
            /\ Score' = Score + 5 + (IF Unlocked' # Unlocked THEN 5 ELSE 0)
            /\ firstMemoryCard' = 0]_vars

\* in the second game, with pairs matched, a callback has run on a null
\* pending card: it took the class off its card and stopped
C20_Witness ==
    /\ memoryGames = 2
    /\ memoryMatched # {}
    /\ memoryShown \ memoryFlipped # {}
    /\ memoryTimers = <<>>

-----------------------------------------------------------------------------
(* C21 *)

\* the cards of the mismatch that set the lock: the pending card and the
\* card of the callback scheduled last
MismatchedCards == {firstMemoryCard, memoryTimers[Len(memoryTimers)]}

\* C21: a mismatch sets the lock and schedules a callback; a set lock is
\* eventually released; and a step that releases the lock within a game
\* leaves both cards of the mismatch face-down and no card pending.
C21_Original ==
    /\ [][(~memoryLock /\ memoryLock') => Len(memoryTimers') = Len(memoryTimers) + 1]_vars
    /\ memoryLock ~> ~memoryLock
    /\ [][(memoryLock /\ ~memoryLock' /\ memoryGames' = memoryGames) =>
            /\ firstMemoryCard' = 0
            /\ MismatchedCards \cap memoryFlipped' = {}]_vars

-----------------------------------------------------------------------------
(* C22 *)

\* C22: in every state, the click listener of a card that carries the flip
\* class, and of any card while the lock is set, returns the page as it
\* found it: turn state, faces, score, counters and callbacks scheduled.
C22_IgnoredClick ==
    \A card \in DOMAIN memoryBoard :
        (memoryLock \/ card \in memoryFlipped) => handleMemoryCardClick(World, card) = World

\* the lock is set by a mismatch, with cards face-down to click on
C22_Witness ==
    /\ memoryLock
    /\ memoryPairsMatched >= 1
    /\ DOMAIN memoryBoard \ memoryFlipped # {}

-----------------------------------------------------------------------------
(* C23 *)

\* the cards that are face-up and not matched
FaceUpUnmatched == memoryFlipped \ memoryMatched

\* C23: while the lock is not set the unmatched face-up cards are the
\* pending card, if there is one, and no other; while the lock is set
\* they are exactly two.
C23_Original ==
    /\ ~memoryLock =>
          FaceUpUnmatched = (IF firstMemoryCard = 0 THEN {} ELSE {firstMemoryCard})
    /\ memoryLock => Cardinality(FaceUpUnmatched) = 2

-----------------------------------------------------------------------------
(* C24 *)

\* C24: no step takes a scheduled callback away other than by running it:
\* a step leaves the callbacks as they are, schedules one more, runs the
\* oldest within the game, or (startMemoryGame) keeps every one of them
\* while their cards leave the document.
C24_NeverCancelled ==
    [][\/ memoryTimers' = memoryTimers
       \/ \E card \in DOMAIN memoryBoard : memoryTimers' = Append(memoryTimers, card)
       \/ /\ memoryTimers # <<>> /\ memoryTimers' = Tail(memoryTimers)
          /\ memoryGames' = memoryGames
       \/ memoryGames' = memoryGames + 1 /\ memoryTimers' = Detach(memoryTimers)]_vars

\* in the second game the lock is released while the callback of its own
\* mismatch is still to run: a callback of the first game has run since
C24_Witness ==
    /\ memoryGames = 2
    /\ ~memoryLock
    /\ memoryTimers # <<>>
    /\ \A i \in DOMAIN memoryTimers : memoryTimers[i] # 0

-----------------------------------------------------------------------------
(* C25 *)

\* C25: a step that runs a callback whose card belongs to an earlier board
\* leaves the pending card, the lock and the faces of the 16 cards alone.
C25_Original ==
    [][(memoryTimers # <<>> /\ Head(memoryTimers) = 0 /\ memoryTimers' = Tail(memoryTimers))
          => UNCHANGED <<firstMemoryCard, memoryLock, memoryFlipped, memoryShown>>]_vars

-----------------------------------------------------------------------------
(* C26 *)

\* the leaderboard of w shows min(3, products counted) entries of the
\* stored counts, in non-increasing order of count, and no product left
\* out has a higher count than one shown
IsLeaderboard(w) ==
    LET counts == getTrendingCounts(w)
        shown == w.trendingShown
    IN  /\ Len(shown) = (IF Len(counts) < 3 THEN Len(counts) ELSE 3)
        /\ \A i \in DOMAIN shown : \E j \in DOMAIN counts : shown[i] = counts[j]
        /\ \A i \in DOMAIN shown : \A j \in DOMAIN shown :
               i # j => shown[i][1] # shown[j][1]
        /\ \A i \in DOMAIN shown : \A j \in DOMAIN shown :
               i < j => shown[i][2] >= shown[j][2]
        /\ \A i \in DOMAIN shown : \A j \in DOMAIN counts :
               (\A k \in DOMAIN shown : shown[k][1] # counts[j][1])
                   => counts[j][2] <= shown[i][2]

\* C26: in every state, a shop click on the card of any product p raises
\* the stored count of p by 1, leaves the count of every other product as
\* it was, and leaves a leaderboard of the counts it stored.
C26_ShopClickCounts ==
    \A p \in Names :
        LET after == shopButtonClick(World, p)
        IN  /\ CountOf(getTrendingCounts(after), p)
                   = CountOf(getTrendingCounts(World), p) + 1
            /\ \A q \in Names \ {p} :
                   CountOf(getTrendingCounts(after), q) = CountOf(getTrendingCounts(World), q)
            /\ {getTrendingCounts(after)[i][1] : i \in DOMAIN getTrendingCounts(after)}
                   \subseteq Names
            /\ IsLeaderboard(after)

\* four products are counted, and the one clicked last has the highest
\* count: it is shown first and the third of the stored object is left out
C26_Witness ==
    /\ Len(getTrendingCounts(World)) = 4
    /\ Len(trendingShown) = 3
    /\ trendingShown[1] = getTrendingCounts(World)[4]
    /\ IsLeaderboard(World)

-----------------------------------------------------------------------------
(* C27 *)

\* the cards that the filter predicate selects for the query and the
\* category of w
Matching(w) ==
    {n \in Names :
        CardMatches(w, n, toLowerCase(trim(w.searchValue)), w.selectedCategory)}

\* C27: in every state and for every sort mode, the change listener of the
\* sort filter leaves the query and the category as they were and the grid
\* a reordering of itself; the cards visible after it are those that the
\* filter predicate selects for that query and category, before and after
\* the sort alike, so that a visible set that agreed with the predicate is
\* unchanged.
C27_SortKeepsVisible ==
    \A mode \in SortModes :
        LET after == sortFilterChange(World, mode)
        IN  /\ after.searchValue = searchValue
            /\ after.selectedCategory = selectedCategory
            /\ Len(after.gridOrder) = Len(gridOrder)
            /\ Range(after.gridOrder) = Range(gridOrder)
            /\ after.visible = Matching(World)
            /\ Matching(after) = Matching(World)
            /\ visible = Matching(World) => after.visible = visible

\* a query and a category hide some cards and show others, and a sort has
\* moved the grid out of its original order
C27_Witness ==
    /\ visible # {} /\ visible # Names
    /\ selectedCategory # "All"
    /\ searchValue # <<>>
    /\ gridOrder # CardNames
    /\ sortMode # "default"

-----------------------------------------------------------------------------
(* C28 *)

\* tab t starts the operation op in this step
Reads(t, op) == tabs[t].op = "idle" /\ tabs'[t].op = op

\* tab t completes the operation op in this step
Writes(t, op) == tabs[t].op = op /\ tabs'[t].op = "idle"

\* C28: every operation of a tab starts by reading the key as it is stored,
\* and ends by storing the value it read with its own update applied,
\* whatever the other tab has stored in between: the counter it read plus
\* 1, the score it read plus the amount, the list it read with the name
\* toggled.
C28_LastWriteWins ==
    [][\A t \in Tabs :
          /\ Reads(t, "incrementStat") => tabs'[t].read = userStats
          /\ Reads(t, "addPoints") => tabs'[t].read = userPoints
          /\ Reads(t, "toggleCompare") => tabs'[t].read = compareList
          /\ Writes(t, "incrementStat") =>
                 Stats' = [getStats(WithRead(World, t)) EXCEPT ![tabs[t].arg] = @ + 1]
          /\ Writes(t, "addPoints") => Score' = getPoints(WithRead(World, t)) + 1
          /\ Writes(t, "toggleCompare") =>
                 LET list == getCompareList(WithRead(World, t))
                 IN  /\ userPoints' = userPoints /\ userStats' = userStats
                     /\ (tabs[t].arg \in Range(CmpList')) = (tabs[t].arg \notin Range(list))
                     /\ Range(CmpList') \ {tabs[t].arg} = Range(list) \ {tabs[t].arg}]_vars

\* both tabs have incremented the counter and added a point, and each of
\* the two shows once in the storage
C28_Witness ==
    /\ \A t \in Tabs : tabs[t].op = "idle"
    /\ tabWrites = 4
    /\ statCalls["shopClicks"] = 2 /\ Stats["shopClicks"] = 1
    /\ Score = 1

-----------------------------------------------------------------------------
(* C29 *)

\* the display of w agrees with the lists that w stores
DisplayAgrees(w) ==
    /\ \A n \in Names : (n \in w.favIcons) = (n \in Range(getFavorites(w)))
    /\ \A n \in Names : (n \in w.cmpIcons) = (n \in Range(getCompareList(w)))
    /\ (w.favSection = "none") = (getFavorites(w) = <<>>)
    /\ w.favSection \in {"none", "block"}
    /\ (~w.cmpBar.shown) = (getCompareList(w) = <<>>)
    /\ w.cmpBar.shown => w.cmpBar.count = Len(getCompareList(w))
    /\ Len(openCompareModal(w).compareContent) <= 3

\* C29: from empty storage, the display agrees with the stored lists in
\* every state, which is a state after the page load or after a toggle, and
\* after a load of the page on the lists stored; and the comparison view
\* never holds more than 3 cards.
C29_DisplayAgrees ==
    /\ DisplayAgrees(World)
    /\ DisplayAgrees(PageLoad(StorageOf(World)))
    /\ Len(compareContent) <= 3

\* the comparison view shows the full list, whose oldest member has been
\* replaced, next to a favorites panel that was shown and is hidden again
C29_Witness ==
    /\ Len(compareContent) = 3
    /\ compareContent = CmpList
    /\ lastEvicted # "none"
    /\ Stats["favoritesAdded"] = 1
    /\ favSection = "none"

-----------------------------------------------------------------------------
(* C30 *)

\* C30: from empty storage, in every state between handlers, an
\* achievement is unlocked exactly when the stored counter of its metric
\* is at or above its threshold.
C30_UnlockedIffReached ==
    \A i \in DOMAIN achievementDefs :
        Unlocked[achievementDefs[i].key]
            = (Stats[achievementDefs[i].metric] >= achievementDefs[i].threshold)

\* the shop counter has passed the highest threshold, with the others below
\* theirs
C30_Witness ==
    /\ Stats["shopClicks"] > 10
    /\ Unlocked["shopper"]
    /\ \A i \in DOMAIN achievementDefs :
          achievementDefs[i].key # "shopper" => ~Unlocked[achievementDefs[i].key]

-----------------------------------------------------------------------------
(* C31 *)

UnlockedKeys == {k \in AchievementKeys : Unlocked[k]}

\* the points the handlers have granted for the events counted, and one
\* bonus for each achievement unlocked
EarnedScore ==
    1 * Stats["shopClicks"] + FavoritePoints * Stats["favoritesAdded"]
    + 1 * Stats["quickViews"] + QuizPoints * Stats["quizCompleted"]
    + 1 * Stats["voiceSearches"] + 2 * Stats["surprises"]
    + MatchPoints * Stats["memoryMatches"]
    + AchievementBonus * Cardinality(UnlockedKeys)

\* C31: from empty storage, after every handler the persisted score is
\* 1 per shop click, 5 per favorite added, 1 per quick view, 10 per quiz
\* completed, 1 per voice search, 2 per surprise, 5 per memory match and 5
\* per unlocked achievement; and no handler unlocks more than one
\* achievement, so that the bonus granted once per call is a bonus per
\* achievement.
C31_ScoreFormula ==
    /\ [](Score = EarnedScore)
    /\ [][Cardinality(UnlockedKeys') <= Cardinality(UnlockedKeys) + 1]_vars

\* a favorite, a voice search and a sort change: two achievements unlocked
\* by two calls, and events of three weights
C31_Witness ==
    /\ Stats["favoritesAdded"] = 1
    /\ Stats["voiceSearches"] = 1
    /\ Stats["sortChanges"] = 1
    /\ Cardinality(UnlockedKeys) = 2
    /\ Score = 16

-----------------------------------------------------------------------------
(* C32 *)

\* what toggleCompare may change: the compare list, its icons and its bar,
\* and the history kept of the list
CompareFields ==
    {"compareList", "cmpIcons", "cmpBar", "compareClock", "insertedAt", "lastEvicted"}

\* the achievements that an evaluation made now would unlock
Pending == NewlyUnlocked(Stats, Unlocked)

\* C32: in every state and for every name, toggleCompare changes nothing
\* but the compare list and its display: the score, the counters, the
\* unlocked achievements, the favorites and the trending counts stay as they
\* are, with all else on the page, and the achievements are not evaluated:
\* those that an evaluation would unlock stay locked.
C32_CompareFrame ==
    \A name \in Names :
        LET res == toggleCompare(World, name)
        IN  /\ \A f \in DOMAIN World \ CompareFields : res[f] = World[f]
            /\ res.userPoints = userPoints
            /\ res.userStats = userStats
            /\ res.achievementsUnlocked = achievementsUnlocked
            /\ res.favorites = favorites
            /\ res.trendingCounts = trendingCounts
            /\ NewlyUnlocked(getStats(res), getUnlockedAchievements(res)) = Pending

\* the list has been filled and has evicted a member while the counters
\* stand at the thresholds and no achievement is unlocked
C32_Witness ==
    /\ Len(CmpList) = MaxCompare
    /\ lastEvicted # "none"
    /\ Pending # {}
    /\ UnlockedKeys = {}

-----------------------------------------------------------------------------
(* C33 *)

\* the list that displayRecommendations renders for the responses
Rendered(responses) == displayRecommendations(World, responses).quizShown

\* the names it looks up on the page, before any card is found or missed
LookedUp(responses) == FirstShown(QuizCandidates(responses))

BudgetMatters(useCase, priority) == useCase = "Social" /\ priority = "Audio"

\* C33: for every use case and feature, the list rendered is the same for
\* the budgets Low and Medium; for every pair but Social with Audio it is
\* the same for High as well; and so are the names looked up on the page,
\* whichever cards the page has.  A result that is shown is the list that
\* the budget Low gives for its use case and feature, Social with Audio
\* excepted.
C33_BudgetIndependence ==
    /\ \A i \in DOMAIN quizQuestions[1].answers, j \in DOMAIN quizQuestions[3].answers :
          LET useCase == quizQuestions[1].answers[i]
              priority == quizQuestions[3].answers[j]
              low == <<useCase, "Low", priority>>
              medium == <<useCase, "Medium", priority>>
              high == <<useCase, "High", priority>>
          IN  /\ Rendered(low) = Rendered(medium)
              /\ LookedUp(low) = LookedUp(medium)
              /\ ~BudgetMatters(useCase, priority) =>
                    /\ Rendered(high) = Rendered(low)
                    /\ LookedUp(high) = LookedUp(low)
    /\ quizIndex = Len(quizQuestions) /\ ~BudgetMatters(quizAnswers[1], quizAnswers[3]) =>
          quizShown = Rendered(<<quizAnswers[1], "Low", quizAnswers[3]>>)

\* a result shown for the budget High, with a use case and a feature that
\* fill the list by themselves
C33_Witness ==
    /\ quizIndex = Len(quizQuestions)
    /\ quizAnswers = <<"Productivity", "High", "Battery">>
    /\ Len(quizShown) = MaxShown
    /\ Range(quizShown) \cap Range(BudgetRecs("High")) = {}

-----------------------------------------------------------------------------
(* C34 *)

\* no card of the grid stands before a card of a higher trending count
ByPopularity(w) ==
    \A i \in 1..(Len(w.gridOrder) - 1) :
        CountOf(getTrendingCounts(w), w.gridOrder[i])
            >= CountOf(getTrendingCounts(w), w.gridOrder[i + 1])

\* C34 as stated: while the sort mode selected is popularity, the order of
\* the grid is non-increasing in the current trending counts, whatever shop
\* clicks have been made.
C34_Original == sortMode = "popularity" => ByPopularity(World)

\* C34 as amended: the change of the sort mode to popularity leaves the
\* grid in an order that is non-increasing in the trending counts of that
\* moment; a shop click moves no card, whatever the sort mode, so that the
\* order can lag behind the counts until the sort mode is changed again.
C34_SortedWhenSelected ==
    /\ [](/\ ByPopularity(sortFilterChange(World, "popularity"))
          /\ \A name \in Names : shopButtonClick(World, name).gridOrder = gridOrder)
    /\ [][/\ statCalls'["sortChanges"] # statCalls["sortChanges"]
              /\ sortMode' = "popularity" => ByPopularity(World')
          /\ statCalls'["shopClicks"] # statCalls["shopClicks"] =>
                gridOrder' = gridOrder /\ sortMode' = sortMode]_vars

\* popularity was selected after a click, which moved the card clicked to
\* the front, and a click since has raised a card behind it above it
C34_Witness ==
    /\ sortMode = "popularity"
    /\ statCalls["sortChanges"] = 1
    /\ gridOrder[1] # CardNames[1]
    /\ CountOf(getTrendingCounts(World), gridOrder[1]) = 1
    /\ ~ByPopularity(World)

=============================================================================
